---- MODULE Spec2Model ----
(***************************************************************************)
(* pandad daemon (selfdrive/pandad/pandad_daemon.py): the 100 Hz run loop, *)
(* the CAN bridge, the health reporter and the PandaSafety state machine.  *)
(*                                                                         *)
(* Modelling conventions                                                   *)
(*  - Every external read (Params keys, device health, selfdriveState,     *)
(*    the device's connected flag, the monotonic clock) is drawn at the    *)
(*    place the code reads it.                                             *)
(*  - Device calls the code wraps in try/except may fail; the other device *)
(*    calls return normally.                                               *)
(*  - An uncaught Python exception leaves pandad_run and                   *)
(*    pandad_main_thread at once: pc = "crashed".                          *)
(*  - calls is the list of device calls and Params writes issued by the    *)
(*    last step, in the order the code issues them; last names that step.  *)
(***************************************************************************)
EXTENDS Integers, Sequences, FiniteSets, TLC

\* ------------------------------------------------------------- bounds
\* rk.frame is unbounded in the code; the loop is explored up to this tick index.
MaxFrame == 21
\* sendcan messages published during one exploration of the CAN bridge.
MaxMsgs == 2
\* Clock advances explored by the CAN bridge specification.
MaxAdvances == 2
\* The clock is explored up to this many ns after the start.
MaxClock == 2100000000

\* Integrated-lines values are explored this far below CUTOFF_IL and above
\* SATURATE_IL.
LinesMargin == 100

\* PeripheralStateProcessor.update calls explored when following the fan.
MaxFanUpdates == 100
\* PeripheralStateProcessor.update calls explored when following the IR power.
MaxIrUpdates == 2

\* Iterations of the HwmonReader thread and send_peripheral_state calls explored.
MaxWrites == 2
MaxGets == 2

\* ---------------------------------------------------------- constants
PANDA_CAN_CNT == 3
MAX_IR_PANDA_VAL == 50
CUTOFF_IL == 400
SATURATE_IL == 1000
FAULT_RELAY_MALFUNCTION == 0
\* "self.frame % 100 == 0": the forced resend of the fan and IR commands.
RESEND_PERIOD == 100
\* 1e9 ns: the driver camera input timeout.
IR_TIMEOUT_NS == 1000000000
FAULT_HEARTBEAT_LOOP_WATCHDOG == 26
CONNECT_RETRY_MS == 100
\* 1e9 ns: the staleness threshold of can_send.
SENDCAN_MAX_AGE_NS == 1000000000
\* Loop periods, in 100 Hz ticks.
PERIPHERAL_PERIOD == 5
PANDA_STATE_PERIOD == 10
PERIPHERAL_STATE_PERIOD == 50

\* CarParams.SafetyModel members the daemon names.
SILENT == "silent"
NO_OUTPUT == "noOutput"
ELM327 == "elm327"

VARIABLES
  pc,              \* position of the main thread
  last,            \* the step that ran last
  calls,           \* device calls / Params writes of the last step, in order
  pubs,            \* messages the last step handed to pm.send, in order
  replies,         \* what the device answered to the last step's queries
  frame,           \* rk.frame
  do_exit,         \* module global do_exit
  connected,       \* panda.connected as last read
  engaged, is_onroad, comms_healthy, ignition_opt,   \* locals of pandad_run
  panda_safety,    \* the PandaSafety object
  reads,           \* Params values read by the last configure_safety_mode
  dev,             \* the device: safety mode, param, power save, alt. experience
  env,             \* environment toggles read at the top of pandad_run
  session,         \* bookkeeping of the current onroad session
  err,             \* a health query has failed or the exit flag has been set
  sendcan_sock,    \* sendcan messages published and not yet polled, and how many were
  sendcan_sm,      \* SubMaster(['sendcan'])
  mono,            \* time.monotonic() in ns, and the advances made
  can_sent,        \* per message id: polled?, its age when polled, can_send_many calls
  fn,              \* a function of the daemon applied on its own: input and result
  peripheral,      \* the PeripheralStateProcessor object and its inputs' bookkeeping
  hwmon,           \* the HwmonReader object, its thread and the main thread's reads
  wifi             \* WifiUIMici with its wifi manager

vars == << pc, last, calls, pubs, replies, frame, do_exit, connected, engaged, is_onroad,
           comms_healthy, ignition_opt, panda_safety, reads, dev, env, session,
           err, sendcan_sock, sendcan_sm, mono, can_sent, fn, peripheral, hwmon, wifi >>

loop_vars == << pc, last, calls, pubs, replies, frame, do_exit, connected, engaged, is_onroad,
                comms_healthy, ignition_opt, panda_safety, reads, dev, session, err >>

can_vars == << sendcan_sock, sendcan_sm, mono, can_sent >>

\* The components explored by specifications of their own.
side_vars == << fn, peripheral, hwmon, wifi >>

\* ------------------------------------------------------- device calls
SetSafetyMode(model, param) == << "set_safety_mode", model, param >>
SetPowerSave_on(v) == << "set_power_save", 1 >>
SetPowerSave(v) == << "set_power_save", v >>
SetAlternativeExperience(a) == << "set_alternative_experience", a >>
SendHeartbeat_disengaged(e) == << "send_heartbeat", FALSE >>
SendHeartbeat(e) == << "send_heartbeat", e >>
CanSendMany(msgs) == << "can_send_many", msgs >>
PutBool(key, v) == << "put_bool", key, v >>
Close == << "close" >>

IsSafetyWrite(c) == c[1] = "set_safety_mode"

\* A safety model other than the diagnostic and the passive ones.
VehicleSpecific(model) == model \notin {ELM327, NO_OUTPUT, SILENT}

\* The device after one call.
DevAfter(d, c) ==
  IF c[1] = "set_safety_mode" THEN [d EXCEPT !.safety_mode = c[2], !.safety_param = c[3]]
  ELSE IF c[1] = "set_power_save" THEN [d EXCEPT !.power_save_enabled = c[2]]
  ELSE IF c[1] = "set_alternative_experience" THEN [d EXCEPT !.alternative_experience = c[2]]
  ELSE d

RECURSIVE DevAfterAll(_, _)
DevAfterAll(d, cs) ==
  IF cs = << >> THEN d ELSE DevAfterAll(DevAfter(d, Head(cs)), Tail(cs))

SafetyWrites(cs) == SelectSeq(cs, IsSafetyWrite)

ModelsWritten(cs) == { cs[i][2] : i \in { j \in 1..Len(cs) : IsSafetyWrite(cs[j]) } }

\* Python's Optional: None, or a value.
None == << >>
Some(v) == << v >>

\* ------------------------------------------------------ external values
\* The CarParams blob as Params.get returns it: absent, empty, bytes that do not
\* parse, a CarParams with no safetyConfigs entry, or a CarParams with one.
NoCarParams == [kind |-> "none"]
EmptyCarParams == [kind |-> "empty"]
GarbageCarParams == [kind |-> "garbage"]
CarParamsNoConfigs == [kind |-> "parsed", safetyConfigs |-> << >>, alternativeExperience |-> 0]
CarParamsToyota ==
  [kind |-> "parsed", alternativeExperience |-> 1,
   safetyConfigs |-> << [safetyModel |-> "toyota", safetyParam |-> 7] >>]
CarParamsMock ==
  [kind |-> "parsed", alternativeExperience |-> 0,
   safetyConfigs |-> << [safetyModel |-> NO_OUTPUT, safetyParam |-> 0] >>]

CarParamsBlobs ==
  { NoCarParams, EmptyCarParams, GarbageCarParams, CarParamsNoConfigs,
    CarParamsToyota, CarParamsMock }

\* Python truthiness of the blob ("if car_params:").
Truthy(blob) == blob.kind \notin {"none", "empty"}

\* ----------------------------------------------------------- PandaSafety
PandaSafetyInit ==
  [initialized |-> FALSE, log_once |-> FALSE, safety_configured |-> FALSE,
   prev_obd_multiplexing |-> FALSE]

\* Variant of _update_multiplexing_mode that does not write ObdMultiplexingChanged.
update_multiplexing_mode_silent(self, obd) ==
  LET s1 == IF ~self.initialized
              THEN [self EXCEPT !.prev_obd_multiplexing = FALSE, !.initialized = TRUE]
              ELSE self
      c1 == IF ~self.initialized THEN << SetSafetyMode(ELM327, 1) >> ELSE << >>
      changed == obd # s1.prev_obd_multiplexing
  IN  [self  |-> IF changed THEN [s1 EXCEPT !.prev_obd_multiplexing = obd] ELSE s1,
       calls |-> c1 \o (IF changed
                          THEN << SetSafetyMode(ELM327, IF obd THEN 0 ELSE 1) >>
                          ELSE << >>)]

\* Variant of _update_multiplexing_mode that keeps prev_obd_multiplexing over a
\* re-initialization.
update_multiplexing_mode_keeps_last_applied(self, obd) ==
  LET s1 == IF ~self.initialized THEN [self EXCEPT !.initialized = TRUE] ELSE self
      c1 == IF ~self.initialized THEN << SetSafetyMode(ELM327, 1) >> ELSE << >>
      changed == obd # s1.prev_obd_multiplexing
  IN  [self  |-> IF changed THEN [s1 EXCEPT !.prev_obd_multiplexing = obd] ELSE s1,
       calls |-> c1 \o (IF changed
                          THEN << SetSafetyMode(ELM327, IF obd THEN 0 ELSE 1),
                                  PutBool("ObdMultiplexingChanged", TRUE) >>
                          ELSE << >>)]

\* Variant of _update_multiplexing_mode without the initial ELM327 write.
update_multiplexing_mode_without_initial_write(self, obd) ==
  LET s1 == IF ~self.initialized
              THEN [self EXCEPT !.prev_obd_multiplexing = FALSE, !.initialized = TRUE]
              ELSE self
      changed == obd # s1.prev_obd_multiplexing
  IN  [self  |-> IF changed THEN [s1 EXCEPT !.prev_obd_multiplexing = obd] ELSE s1,
       calls |-> IF changed
                   THEN << SetSafetyMode(ELM327, IF obd THEN 0 ELSE 1),
                           PutBool("ObdMultiplexingChanged", TRUE) >>
                   ELSE << >>]

\* PandaSafety._update_multiplexing_mode; obd is ObdMultiplexingEnabled as read.
update_multiplexing_mode(self, obd) ==
  LET s1 == IF ~self.initialized
              THEN [self EXCEPT !.prev_obd_multiplexing = FALSE, !.initialized = TRUE]
              ELSE self
      c1 == IF ~self.initialized THEN << SetSafetyMode(ELM327, 1) >> ELSE << >>
      changed == obd # s1.prev_obd_multiplexing
  IN  [self  |-> IF changed THEN [s1 EXCEPT !.prev_obd_multiplexing = obd] ELSE s1,
       calls |-> c1 \o (IF changed
                          THEN << SetSafetyMode(ELM327, IF obd THEN 0 ELSE 1),
                                  PutBool("ObdMultiplexingChanged", TRUE) >>
                          ELSE << >>)]

\* Variant of _fetch_car_params that does not wait for ControlsReady.
fetch_car_params_skips_controls_ready(self, fw, ready, blob) ==
  IF ~fw THEN [self |-> self, ret |-> None, keys |-> << "FirmwareQueryDone" >>]
  ELSE [self |-> [self EXCEPT !.log_once = TRUE],
        ret  |-> IF blob.kind = "none" THEN None ELSE Some(blob),
        keys |-> << "FirmwareQueryDone", "CarParams" >>]

\* PandaSafety._fetch_car_params; fw, ready, blob are FirmwareQueryDone,
\* ControlsReady and CarParams as they would be read. keys: the keys really read.
fetch_car_params(self, fw, ready, blob) ==
  IF ~fw THEN [self |-> self, ret |-> None, keys |-> << "FirmwareQueryDone" >>]
  ELSE LET s1 == [self EXCEPT !.log_once = TRUE]
       IN  IF ~ready
             THEN [self |-> s1, ret |-> None,
                   keys |-> << "FirmwareQueryDone", "ControlsReady" >>]
             ELSE [self |-> s1,
                   ret  |-> IF blob.kind = "none" THEN None ELSE Some(blob),
                   keys |-> << "FirmwareQueryDone", "ControlsReady", "CarParams" >>]

\* PandaSafety._set_safety_mode: CarParams.from_bytes raises on bytes that do not
\* parse, safety_configs[0] raises IndexError on an empty list.
set_safety_mode(params_string) ==
  IF params_string.kind # "parsed" \/ params_string.safetyConfigs = << >>
    THEN [raised |-> TRUE, calls |-> << >>]
    ELSE [raised |-> FALSE,
          calls  |-> << SetAlternativeExperience(params_string.alternativeExperience),
                        SetSafetyMode(params_string.safetyConfigs[1].safetyModel,
                                      params_string.safetyConfigs[1].safetyParam) >>]

\* Variant of configure_safety_mode that never records safety_configured.
configure_safety_mode_stays_unconfigured(self, onroad, obd, fw, ready, blob) ==
  IF onroad /\ ~self.safety_configured THEN
    LET m == update_multiplexing_mode(self, obd)
        f == fetch_car_params(m.self, fw, ready, blob)
        got == f.ret # None /\ Truthy(f.ret[1])
        s == IF got THEN set_safety_mode(f.ret[1]) ELSE [raised |-> FALSE, calls |-> << >>]
        keys == << "ObdMultiplexingEnabled" >> \o f.keys
    IN  [self   |-> f.self,
         calls  |-> m.calls \o s.calls,
         set_calls |-> s.calls,
         raised |-> s.raised,
         keys   |-> keys,
         truthy |-> { k \in { keys[i] : i \in 1..Len(keys) } :
                        \/ k = "ObdMultiplexingEnabled" /\ obd
                        \/ k = "FirmwareQueryDone" /\ fw
                        \/ k = "ControlsReady" /\ ready
                        \/ k = "CarParams" /\ Truthy(blob) }]
  ELSE IF ~onroad THEN
    [self   |-> [self EXCEPT !.initialized = FALSE, !.safety_configured = FALSE,
                             !.log_once = FALSE],
     calls |-> << >>, set_calls |-> << >>, raised |-> FALSE, keys |-> << >>, truthy |-> {}]
  ELSE
    [self |-> self, calls |-> << >>, set_calls |-> << >>, raised |-> FALSE,
     keys |-> << >>, truthy |-> {}]

\* PandaSafety.configure_safety_mode. Result: the object afterwards, the calls
\* issued (set_calls: those of _set_safety_mode), whether an exception left the
\* method, and the Params keys read (truthy: those read true / non-empty).
configure_safety_mode(self, onroad, obd, fw, ready, blob) ==
  IF onroad /\ ~self.safety_configured THEN
    LET m == update_multiplexing_mode(self, obd)
        f == fetch_car_params(m.self, fw, ready, blob)
        got == f.ret # None /\ Truthy(f.ret[1])
        s == IF got THEN set_safety_mode(f.ret[1]) ELSE [raised |-> FALSE, calls |-> << >>]
        keys == << "ObdMultiplexingEnabled" >> \o f.keys
    IN  [self   |-> IF got /\ ~s.raised THEN [f.self EXCEPT !.safety_configured = TRUE]
                    ELSE f.self,
         calls  |-> m.calls \o s.calls,
         set_calls |-> s.calls,
         raised |-> s.raised,
         keys   |-> keys,
         truthy |-> { k \in { keys[i] : i \in 1..Len(keys) } :
                        \/ k = "ObdMultiplexingEnabled" /\ obd
                        \/ k = "FirmwareQueryDone" /\ fw
                        \/ k = "ControlsReady" /\ ready
                        \/ k = "CarParams" /\ Truthy(blob) }]
  ELSE IF ~onroad THEN
    [self   |-> [self EXCEPT !.initialized = FALSE, !.safety_configured = FALSE,
                             !.log_once = FALSE],
     calls |-> << >>, set_calls |-> << >>, raised |-> FALSE, keys |-> << >>, truthy |-> {}]
  ELSE
    [self |-> self, calls |-> << >>, set_calls |-> << >>, raised |-> FALSE,
     keys |-> << >>, truthy |-> {}]

\* ------------------------------------------------------ HealthReporter
\* fill_panda_state: the PandaState built from a health dict (the fields the
\* model keeps of it); the boolean fields are bool(...) of the integers read.
fill_panda_state(health) ==
  [ignitionLine |-> health.ignition_line # 0, ignitionCan |-> health.ignition_can # 0,
   safetyModel |-> health.safety_mode, safetyParam |-> health.safety_param,
   powerSaveEnabled |-> health.power_save_enabled # 0]

\* Variant of send_panda_states that publishes what it has when a per-bus health
\* query fails.
send_panda_states_publishes_partial(health_ok, bus_ok, health, onroad, spoofing_started) ==
  IF ~health_ok THEN [ret |-> None, calls |-> << >>, pubs |-> << >>]
  ELSE IF bus_ok < PANDA_CAN_CNT
    THEN [ret |-> None, calls |-> << >>,
          pubs |-> << << "pandaStates", TRUE, fill_panda_state(health) >> >>]
  ELSE
    LET h == IF spoofing_started THEN [health EXCEPT !.ignition_line = 1] ELSE health
        ignition_local == h.ignition_line # 0 \/ h.ignition_can # 0
        c1 == IF h.safety_mode = SILENT THEN << SetSafetyMode(NO_OUTPUT, 0) >> ELSE << >>
        power_save_desired == ~ignition_local
        c2 == IF (h.power_save_enabled # 0) # power_save_desired
                THEN << SetPowerSave(IF power_save_desired THEN 1 ELSE 0) >> ELSE << >>
        should_close_relay == ~ignition_local \/ ~onroad
        c3 == IF should_close_relay /\ h.safety_mode # NO_OUTPUT
                THEN << SetSafetyMode(NO_OUTPUT, 0) >> ELSE << >>
    IN  [ret |-> Some(ignition_local), calls |-> c1 \o c2 \o c3,
         pubs |-> << << "pandaStates", TRUE, fill_panda_state(h) >> >>]

\* Variant of send_panda_states that closes the relay when a query fails.
send_panda_states_closes_relay_on_failure(health_ok, bus_ok, health, onroad, spoofing_started) ==
  [ret |-> None, calls |-> << SetSafetyMode(NO_OUTPUT, 0) >>, pubs |-> << >>]

\* send_panda_states. health_ok: panda.health() returned; bus_ok: how many of the
\* can_health(i) calls returned; health: the dict panda.health() returns.
\* Result: the return value (None, or ignition_local), the device calls and the
\* messages published.
send_panda_states(health_ok, bus_ok, health, onroad, spoofing_started) ==
  IF ~health_ok \/ bus_ok < PANDA_CAN_CNT
    THEN [ret |-> None, calls |-> << >>, pubs |-> << >>]
  ELSE
    LET h == IF spoofing_started THEN [health EXCEPT !.ignition_line = 1] ELSE health
        ignition_local == h.ignition_line # 0 \/ h.ignition_can # 0
        c1 == IF h.safety_mode = SILENT THEN << SetSafetyMode(NO_OUTPUT, 0) >> ELSE << >>
        power_save_desired == ~ignition_local
        c2 == IF (h.power_save_enabled # 0) # power_save_desired
                THEN << SetPowerSave(IF power_save_desired THEN 1 ELSE 0) >> ELSE << >>
        should_close_relay == ~ignition_local \/ ~onroad
        c3 == IF should_close_relay /\ h.safety_mode # NO_OUTPUT
                THEN << SetSafetyMode(NO_OUTPUT, 0) >> ELSE << >>
    IN  [ret |-> Some(ignition_local), calls |-> c1 \o c2 \o c3,
         pubs |-> << << "pandaStates", TRUE, fill_panda_state(h) >> >>]

\* What panda.health() reports of the device, with the ignition inputs as read.
Health(d, line, can) ==
  [ignition_line |-> line, ignition_can |-> can, safety_mode |-> d.safety_mode,
   safety_param |-> d.safety_param, power_save_enabled |-> d.power_save_enabled]

\* ------------------------------------------------------------ CanBridge
\* What panda.can_recv() may return: lists of (address, dat, src) tuples.
RawCanData ==
  { << >>, << << 512, "a", 0 >>, << 513, "b", 2 >> >>,
    << << 513, "b", 2 >>, << 512, "a", 0 >> >> }

\* Variant of can_recv that marks every message valid.
can_recv_always_valid(recv_ok, raw) ==
  LET raw_can_data == IF recv_ok THEN raw ELSE << >>
  IN  [ret  |-> recv_ok,
       pubs |-> << << "can", TRUE,
                      [i \in 1..Len(raw_can_data) |->
                         [address |-> raw_can_data[i][1], dat |-> raw_can_data[i][2],
                          src |-> raw_can_data[i][3]]] >> >>]

\* can_recv. recv_ok: panda.can_recv() returned (raw: what it returned) rather
\* than raised. Result: the return value and the 'can' message published.
can_recv(recv_ok, raw) ==
  LET raw_can_data == IF recv_ok THEN raw ELSE << >>
      healthy == recv_ok
  IN  [ret  |-> healthy,
       pubs |-> << << "can", healthy,
                      [i \in 1..Len(raw_can_data) |->
                         [address |-> raw_can_data[i][1], dat |-> raw_can_data[i][2],
                          src |-> raw_can_data[i][3]]] >> >>]

\* Variant of check_connected that reports a lost device as connected.
check_connected_ignores_loss(panda_connected, exit_before) ==
  [ret |-> TRUE, do_exit |-> exit_before]

\* check_connected: the value returned and the value do_exit has afterwards.
check_connected(panda_connected, exit_before) ==
  IF ~panda_connected THEN [ret |-> FALSE, do_exit |-> TRUE]
  ELSE [ret |-> TRUE, do_exit |-> exit_before]

\* The frame lists a sendcan message may hold (address, dat, src).
Frame1 == [address |-> 512, dat |-> "a", src |-> 0]
Frame2 == [address |-> 513, dat |-> "b", src |-> 2]
FrameLists == { << >>, << Frame1, Frame2 >>, << Frame2, Frame1 >> }

\* (address, dat, src) tuples of a frame list, in order.
FrameTuples(msgs) == [i \in 1..Len(msgs) |-> << msgs[i].address, msgs[i].dat, msgs[i].src >>]

\* Variant of can_send without the staleness test.
can_send_any_age(updated, msg_time, cur_time, msgs, fake_send) ==
  IF ~updated THEN << >>
  ELSE IF ~fake_send THEN << CanSendMany(FrameTuples(msgs)) >> ELSE << >>

\* Variant of can_send that does not look at sm.updated.
can_send_every_tick(updated, msg_time, cur_time, msgs, fake_send) ==
  IF (cur_time - msg_time) < SENDCAN_MAX_AGE_NS /\ ~fake_send
    THEN << CanSendMany(FrameTuples(msgs)) >>
    ELSE << >>

\* Variant of can_send in which the toggle exempts a message from the staleness test.
can_send_toggle_overrides(updated, msg_time, cur_time, msgs, fake_send) ==
  IF ~updated THEN << >>
  ELSE IF (cur_time - msg_time) < SENDCAN_MAX_AGE_NS \/ fake_send
    THEN << CanSendMany(FrameTuples(msgs)) >>
    ELSE << >>

\* can_send after sm.update(0): updated is sm.updated['sendcan'], msg_time is
\* sm.logMonoTime['sendcan'], msgs is sm['sendcan'].
can_send(updated, msg_time, cur_time, msgs, fake_send) ==
  IF ~updated THEN << >>
  ELSE IF (cur_time - msg_time) < SENDCAN_MAX_AGE_NS /\ ~fake_send
    THEN << CanSendMany(FrameTuples(msgs)) >>
    ELSE << >>

\* ------------------------------------------------------------ DaemonLoop
\* Where the loop body goes after can_send, after the 20 Hz phase and after the
\* 10 Hz phase of tick index f.
AfterSafety(f) ==
  IF f % PERIPHERAL_STATE_PERIOD = 0 THEN "send_peripheral_state" ELSE "keep_time"
AfterPeripheral(f) ==
  IF f % PANDA_STATE_PERIOD = 0 THEN "send_panda_states" ELSE AfterSafety(f)
\* Variant of the step after can_send that goes to the 10 Hz phase first.
AfterCanSend_health_first(f) ==
  IF f % PANDA_STATE_PERIOD = 0 THEN "send_panda_states"
  ELSE IF f % PERIPHERAL_PERIOD = 0 THEN "peripheral_update" ELSE AfterSafety(f)

AfterCanSend(f) ==
  IF f % PERIPHERAL_PERIOD = 0 THEN "peripheral_update" ELSE AfterPeripheral(f)

NoReads == [keys |-> << >>, truthy |-> {}]

SessionInit == [alt |-> 0, set |-> 0, models |-> {}, before |-> {}]

\* The session bookkeeping after a step that issued cs outside _set_safety_mode.
SessionAfter(ses, cs) == [ses EXCEPT !.models = @ \cup ModelsWritten(cs)]

DevInit(mode) ==
  [safety_mode |-> mode, safety_param |-> 0, power_save_enabled |-> 0,
   alternative_experience |-> 0]

\* The CAN bridge before any sendcan message: nothing pending, nothing polled.
CanInit ==
  /\ sendcan_sock = [pending |-> << >>, published |-> 0]
  /\ sendcan_sm = [updated |-> FALSE, logMonoTime |-> 0, msg |-> << >>, id |-> 0]
  /\ mono = [t |-> 0, advances |-> 0]
  /\ can_sent = [i \in 1..MaxMsgs |-> [polled |-> FALSE, age |-> 0, sends |-> 0]]

\* ------------------------------------------------- the other components
\* No function is being applied on its own.
FnIdle == [op |-> "none", bits |-> {}, arg |-> 0, done |-> FALSE, val |-> None]

\* prev_frame_id starts at 0xFFFFFFFF, above every frame id; it is only ever
\* compared, and the model's integers end at 2^31 - 1.
PREV_FRAME_ID_INIT == 2147483647

\* PeripheralStateProcessor.__init__, with the bookkeeping of what update has
\* commanded: updates since the last set_fan_power, the last set_ir_power value.
PeripheralInit ==
  [last_driver_camera_t |-> 0, prev_fan_speed |-> 999, ir_pwr |-> 0,
   prev_ir_pwr |-> 999, prev_frame_id |-> PREV_FRAME_ID_INIT, driver_view |-> FALSE,
   frame |-> 0, since_fan |-> 0, ir_commanded |-> None, cam_age |-> None]

\* HwmonReader.__init__ and the two threads before they run: the shared pair,
\* the lock holder, the reader thread's position and locals (rpc, rv, rc), the
\* main thread's position inside send_peripheral_state and its locals (mpc, mv,
\* mc, ps), and the pairs the reader has stored so far.
HwmonIdle ==
  [voltage |-> 0, current |-> 0, lock |-> "free",
   rpc |-> "unstarted", rv |-> 0, rc |-> 0, writes |-> 0, written |-> {},
   mpc |-> "idle", mv |-> 0, mc |-> 0, gets |-> 0,
   ps |-> [voltage |-> 0, current |-> 0, fanSpeedRpm |-> 0]]

\* WifiState(): no ssid, DISCONNECTED.
WifiStateInit == [ssid |-> None, status |-> "DISCONNECTED"]

\* WifiUIMici.__init__ with its wifi manager: the networks of the latest scan by
\* ssid (their security type), the manager's saved connections and wifi state,
\* the password dialog when one is open, and the last _connect_to_network call
\* (its ssid, and the wifi state it started from); the scan's order, the
\* scroller's items by ssid with their missing marks, the ssid of a need_auth
\* with a wrong password that no other event has followed, and the last handler.
WifiIdle ==
  [networks |-> << >>, saved |-> {}, wifi_state |-> WifiStateInit,
   dialog |-> None, clicked |-> None, before |-> WifiStateInit,
   order |-> << >>, items |-> << >>, missing |-> {}, need_auth |-> None,
   op |-> "init"]

SideInit ==
  /\ fn = FnIdle
  /\ peripheral = PeripheralInit
  /\ hwmon = HwmonIdle
  /\ wifi = WifiIdle

Init ==
  /\ pc = "connect"
  /\ last = "start"
  /\ calls = << >>
  /\ pubs = << >>
  /\ replies = << >>
  /\ frame = 0
  /\ do_exit = FALSE
  /\ connected = FALSE
  /\ engaged = FALSE
  /\ is_onroad = FALSE
  /\ comms_healthy = TRUE
  /\ ignition_opt = None
  /\ panda_safety = PandaSafetyInit
  /\ reads = NoReads
  /\ dev \in { [DevInit(m) EXCEPT !.power_save_enabled = p] :
                  m \in {SILENT, NO_OUTPUT}, p \in {0, 1} }
  /\ env \in [loopback : {FALSE}, fake_send : {FALSE}, spoofing_started : BOOLEAN,
              no_fan_control : {FALSE}]
  /\ session = SessionInit
  /\ err = FALSE
  /\ CanInit
  /\ SideInit

\* Variant of the connect loop that gives up when connect() returns None.
after_connect_gives_up(outcome) ==
  CASE outcome = "none" -> [pc |-> "exit", calls |-> << >>]
    [] outcome = "panda" -> [pc |-> "check", calls |-> << >>]
    [] OTHER -> [pc |-> "crashed", calls |-> << >>]

\* pandad_main_thread, what follows connect(serial): None is retried after
\* time.sleep(0.1), a handle leaves the loop for pandad_run, and connect's
\* RuntimeError leaves pandad_main_thread.
after_connect(outcome) ==
  CASE outcome = "none" ->
         [pc |-> "connect", calls |-> << << "time.sleep", CONNECT_RETRY_MS >> >>]
    [] outcome = "panda" -> [pc |-> "check", calls |-> << >>]
    [] OTHER -> [pc |-> "crashed", calls |-> << >>]

\* pandad_main_thread, the connect loop: connect() returns None (retry after the
\* sleep), returns the handle, or raises on out-of-date firmware.
Connect ==
  /\ pc = "connect"
  /\ \E outcome \in {"none", "panda", "raise"} :
       /\ pc' = after_connect(outcome).pc
       /\ connected' = (outcome = "panda")
       /\ calls' = (IF outcome = "none" THEN << >>
                    ELSE (IF env.loopback THEN << << "set_can_loopback", TRUE >> >> ELSE << >>)
                         \o [i \in 1..PANDA_CAN_CNT |-> << "set_canfd_auto", i - 1, TRUE >>])
                   \o after_connect(outcome).calls
  /\ last' = "connect"
  /\ pubs' = << >>
  /\ replies' = << >>
  /\ reads' = NoReads
  /\ UNCHANGED << frame, do_exit, engaged, is_onroad, comms_healthy, ignition_opt,
                  panda_safety, dev, env, session, err >>
  /\ UNCHANGED can_vars
  /\ UNCHANGED side_vars

\* The loop condition: "while not do_exit and check_connected(panda)".
CheckConnected ==
  /\ pc = "check"
  /\ \E still \in BOOLEAN :
       LET c == IF do_exit THEN connected ELSE connected /\ still
           r == IF do_exit THEN [ret |-> FALSE, do_exit |-> do_exit]
                ELSE check_connected(c, do_exit)
       IN  /\ connected' = c
           /\ do_exit' = r.do_exit
           /\ pc' = IF r.ret THEN "can_recv" ELSE "exit"
           /\ err' = (err \/ r.do_exit)
  /\ last' = "check_connected"
  /\ pubs' = << >>
  /\ replies' = << >>
  /\ calls' = << >>
  /\ reads' = NoReads
  /\ UNCHANGED << frame, engaged, is_onroad, comms_healthy, ignition_opt,
                  panda_safety, dev, env, session >>
  /\ UNCHANGED can_vars
  /\ UNCHANGED side_vars

\* can_recv: panda.can_recv() returns or raises.
CanRecv ==
  /\ pc = "can_recv"
  /\ \E ok \in BOOLEAN, raw \in RawCanData :
       LET r == can_recv(ok, raw)
       IN  /\ comms_healthy' = r.ret
           /\ pubs' = r.pubs
           /\ replies' = << << "can_recv", ok, IF ok THEN raw ELSE << >> >> >>
  /\ pc' = "can_send"
  /\ last' = "can_recv"
  /\ calls' = << >>
  /\ reads' = NoReads
  /\ UNCHANGED << frame, do_exit, connected, engaged, is_onroad, ignition_opt,
                  panda_safety, dev, env, session, err >>
  /\ UNCHANGED can_vars
  /\ UNCHANGED side_vars

\* can_send inside the loop; what the SubMaster holds is drawn here.
CanSend ==
  /\ pc = "can_send"
  /\ \E updated \in BOOLEAN, age \in {0, SENDCAN_MAX_AGE_NS}, msgs \in {<< Frame1, Frame2 >>} :
       calls' = can_send(updated, 0, age, msgs, env.fake_send)
  /\ pc' = AfterCanSend(frame)
  /\ last' = "can_send"
  /\ pubs' = << >>
  /\ replies' = << >>
  /\ reads' = NoReads
  /\ UNCHANGED << frame, do_exit, connected, engaged, is_onroad, comms_healthy,
                  ignition_opt, panda_safety, dev, env, session, err >>
  /\ UNCHANGED can_vars
  /\ UNCHANGED side_vars

\* PeripheralStateProcessor.update inside the loop: it may command the fan and
\* the IR LEDs, and touches nothing else of the device.
PeripheralUpdate ==
  /\ pc = "peripheral_update"
  /\ \E fan \in BOOLEAN, ir \in BOOLEAN :
       calls' = (IF fan /\ ~env.no_fan_control THEN << << "set_fan_power" >> >> ELSE << >>)
                \o (IF ir THEN << << "set_ir_power" >> >> ELSE << >>)
  /\ pc' = AfterPeripheral(frame)
  /\ last' = "peripheral_update"
  /\ pubs' = << >>
  /\ replies' = << >>
  /\ reads' = NoReads
  /\ UNCHANGED << frame, do_exit, connected, engaged, is_onroad, comms_healthy,
                  ignition_opt, panda_safety, dev, env, session, err >>
  /\ UNCHANGED can_vars
  /\ UNCHANGED side_vars

\* Variant of the reconnect decision that ignores the ignition.
should_reconnect_on_any_failure(ign_opt, healthy) ==
  ign_opt # None /\ ~healthy

\* "if ignition_opt is None: log; else: if not ignition_opt and not
\* comms_healthy: do_exit = True": whether do_exit is set.
should_reconnect(ign_opt, healthy) ==
  ign_opt # None /\ ~ign_opt[1] /\ ~healthy

\* The 10 Hz phase up to the reconnect decision: refresh engaged and is_onroad,
\* send_panda_states, and "if not ignition_opt and not comms_healthy: do_exit".
SendPandaStates ==
  /\ pc = "send_panda_states"
  /\ \E e \in BOOLEAN, onroad \in BOOLEAN, health_ok \in BOOLEAN,
        bus_ok \in {PANDA_CAN_CNT - 1, PANDA_CAN_CNT},
        line \in {0, 1}, can \in {0, 1} :
       LET r == send_panda_states(health_ok, bus_ok, Health(dev, line, can), onroad,
                                  env.spoofing_started)
           reconnect == should_reconnect(r.ret, comms_healthy)
       IN  /\ engaged' = e
           /\ is_onroad' = onroad
           /\ ignition_opt' = r.ret
           /\ calls' = r.calls
           /\ pubs' = r.pubs
           /\ replies' =
                IF ~health_ok THEN << << "health", FALSE, << >> >> >>
                ELSE << << "health", TRUE, Health(dev, line, can) >> >>
                     \o [i \in 1..(IF bus_ok < PANDA_CAN_CNT THEN bus_ok + 1 ELSE bus_ok) |->
                           << "can_health", i - 1, i <= bus_ok >>]
           /\ dev' = DevAfterAll(dev, r.calls)
           /\ session' = SessionAfter(session, r.calls)
           /\ do_exit' = (do_exit \/ reconnect)
           /\ err' = (err \/ r.ret = None \/ reconnect)
  /\ pc' = "send_heartbeat"
  /\ last' = "send_panda_states"
  /\ reads' = NoReads
  /\ UNCHANGED << frame, connected, comms_healthy, panda_safety, env >>
  /\ UNCHANGED can_vars
  /\ UNCHANGED side_vars

\* panda.send_heartbeat(engaged)
Heartbeat ==
  /\ pc = "send_heartbeat"
  /\ calls' = << SendHeartbeat(engaged) >>
  /\ pc' = "configure_safety_mode"
  /\ last' = "send_heartbeat"
  /\ pubs' = << >>
  /\ replies' = << >>
  /\ reads' = NoReads
  /\ UNCHANGED << frame, do_exit, connected, engaged, is_onroad, comms_healthy,
                  ignition_opt, panda_safety, dev, env, session, err >>
  /\ UNCHANGED can_vars
  /\ UNCHANGED side_vars

\* panda_safety.configure_safety_mode(is_onroad)
ConfigureSafetyMode ==
  /\ pc = "configure_safety_mode"
  /\ \E obd \in BOOLEAN, fw \in BOOLEAN, ready \in BOOLEAN, blob \in CarParamsBlobs :
       LET r == configure_safety_mode(panda_safety, is_onroad, obd, fw, ready, blob)
           pre == r.calls \* the calls before those of _set_safety_mode
           n == Len(r.calls) - Len(r.set_calls)
           early == SubSeq(r.calls, 1, n)
       IN  /\ panda_safety' = r.self
           /\ calls' = r.calls
           /\ reads' = [keys |-> r.keys, truthy |-> r.truthy]
           /\ dev' = DevAfterAll(dev, r.calls)
           /\ pc' = IF r.raised THEN "crashed" ELSE AfterSafety(frame)
           /\ session' =
                IF ~is_onroad THEN SessionInit
                ELSE LET s1 == SessionAfter(session, early)
                     IN  IF r.set_calls = << >> THEN s1
                         ELSE [alt    |-> s1.alt + Cardinality({ i \in 1..Len(r.set_calls) :
                                             r.set_calls[i][1] = "set_alternative_experience" }),
                               set    |-> s1.set + Len(SafetyWrites(r.set_calls)),
                               before |-> s1.models,
                               models |-> s1.models \cup ModelsWritten(r.set_calls)]
  /\ last' = "configure_safety_mode"
  /\ pubs' = << >>
  /\ replies' = << >>
  /\ UNCHANGED << frame, do_exit, connected, engaged, is_onroad, comms_healthy,
                  ignition_opt, env, err >>
  /\ UNCHANGED can_vars
  /\ UNCHANGED side_vars

\* send_peripheral_state: reads the device and publishes; no device command.
SendPeripheralState ==
  /\ pc = "send_peripheral_state"
  /\ calls' = << >>
  /\ pc' = "keep_time"
  /\ last' = "send_peripheral_state"
  /\ pubs' = << << "peripheralState", TRUE >> >>
  /\ replies' = << >>
  /\ reads' = NoReads
  /\ UNCHANGED << frame, do_exit, connected, engaged, is_onroad, comms_healthy,
                  ignition_opt, panda_safety, dev, env, session, err >>
  /\ UNCHANGED can_vars
  /\ UNCHANGED side_vars

\* The debug-log forward (failures swallowed) and rk.keep_time().
KeepTime ==
  /\ pc = "keep_time"
  /\ frame < MaxFrame
  /\ frame' = frame + 1
  /\ pc' = "check"
  /\ last' = "keep_time"
  /\ pubs' = << >>
  /\ replies' = << >>
  /\ calls' = << >>
  /\ reads' = NoReads
  /\ UNCHANGED << do_exit, connected, engaged, is_onroad, comms_healthy, ignition_opt,
                  panda_safety, dev, env, session, err >>
  /\ UNCHANGED can_vars
  /\ UNCHANGED side_vars

\* Variant of the exit path that closes the relay only while engaged.
close_relay_while_engaged(onroad, eng, conn) ==
  IF onroad /\ eng /\ conn THEN << SetSafetyMode(NO_OUTPUT, 0) >> ELSE << >>

\* "Close relay on exit to prevent a fault": the calls issued after the loop.
close_relay(onroad, eng, conn) ==
  IF onroad /\ ~eng /\ conn THEN << SetSafetyMode(NO_OUTPUT, 0) >> ELSE << >>

\* After the loop; panda.connected is read again when is_onroad and not engaged.
CloseRelay ==
  /\ pc = "exit"
  /\ \E still \in BOOLEAN :
       LET c == connected /\ still
           cs == close_relay(is_onroad, engaged, c)
       IN  /\ connected' = (IF is_onroad /\ ~engaged THEN c ELSE connected)
           /\ calls' = cs
           /\ dev' = DevAfterAll(dev, cs)
           /\ session' = SessionAfter(session, cs)
  /\ pc' = "close"
  /\ last' = "close_relay"
  /\ pubs' = << >>
  /\ replies' = << >>
  /\ reads' = NoReads
  /\ UNCHANGED << frame, do_exit, engaged, is_onroad, comms_healthy, ignition_opt,
                  panda_safety, env, err >>
  /\ UNCHANGED can_vars
  /\ UNCHANGED side_vars

\* pandad_main_thread: panda.close()
PandaClose ==
  /\ pc = "close"
  /\ calls' = << Close >>
  /\ pc' = "done"
  /\ last' = "close"
  /\ pubs' = << >>
  /\ replies' = << >>
  /\ reads' = NoReads
  /\ UNCHANGED << frame, do_exit, connected, engaged, is_onroad, comms_healthy,
                  ignition_opt, panda_safety, dev, env, session, err >>
  /\ UNCHANGED can_vars
  /\ UNCHANGED side_vars

Next ==
  \/ Connect
  \/ CheckConnected
  \/ CanRecv
  \/ CanSend
  \/ PeripheralUpdate
  \/ SendPandaStates
  \/ Heartbeat
  \/ ConfigureSafetyMode
  \/ SendPeripheralState
  \/ KeepTime
  \/ CloseRelay
  \/ PandaClose

Spec == Init /\ [][Next]_vars

\* ---------------------------------------------- CanBridge on its own
\* The sendcan path over many ticks: a publisher, the clock, and can_send with the
\* SubMaster's real content. sendcan sockets conflate: sm.update(0) keeps the
\* newest pending message and reports updated only when one was pending.
ClockSteps == {1, 100000000, 999999999, SENDCAN_MAX_AGE_NS}

InitCan ==
  /\ pc = "can_send"
  /\ last = "start"
  /\ calls = << >>
  /\ pubs = << >>
  /\ replies = << >>
  /\ frame = 1
  /\ do_exit = FALSE
  /\ connected = TRUE
  /\ engaged = FALSE
  /\ is_onroad = FALSE
  /\ comms_healthy = TRUE
  /\ ignition_opt = None
  /\ panda_safety = PandaSafetyInit
  /\ reads = NoReads
  /\ dev = DevInit(NO_OUTPUT)
  /\ env \in [loopback : BOOLEAN, fake_send : BOOLEAN, spoofing_started : {FALSE},
              no_fan_control : {FALSE}]
  /\ session = SessionInit
  /\ err = FALSE
  /\ CanInit
  /\ SideInit

\* A publisher puts a sendcan message on the socket, stamped with the clock.
PublishSendcan ==
  /\ sendcan_sock.published < MaxMsgs
  /\ \E msgs \in FrameLists :
       sendcan_sock' =
         [pending   |-> Append(sendcan_sock.pending,
                               [id |-> sendcan_sock.published + 1,
                                logMonoTime |-> mono.t, msg |-> msgs]),
          published |-> sendcan_sock.published + 1]
  /\ UNCHANGED << sendcan_sm, mono, can_sent, env >>
  /\ UNCHANGED loop_vars
  /\ UNCHANGED side_vars

\* time.monotonic() moves on.
AdvanceClock ==
  /\ mono.advances < MaxAdvances
  /\ \E d \in ClockSteps :
       /\ d <= MaxClock - mono.t
       /\ mono' = [t |-> mono.t + d, advances |-> mono.advances + 1]
  /\ UNCHANGED << sendcan_sock, sendcan_sm, can_sent, env >>
  /\ UNCHANGED loop_vars
  /\ UNCHANGED side_vars

\* sm.update(0) of the sendcan SubMaster.
sm_update(sm, pending) ==
  IF pending = << >> THEN [sm EXCEPT !.updated = FALSE]
  ELSE LET m == pending[Len(pending)]
       IN  [updated |-> TRUE, logMonoTime |-> m.logMonoTime, msg |-> m.msg, id |-> m.id]

\* One tick's can_send(panda, sendcan_sm, fake_send).
CanSendTick ==
  LET sm == sm_update(sendcan_sm, sendcan_sock.pending)
      cs == can_send(sm.updated, sm.logMonoTime, mono.t, sm.msg, env.fake_send)
  IN  /\ sendcan_sm' = sm
      /\ sendcan_sock' = [sendcan_sock EXCEPT !.pending = << >>]
      /\ calls' = cs
      /\ last' = "can_send"
      /\ can_sent' =
           [i \in DOMAIN can_sent |->
              IF i # sm.id THEN can_sent[i]
              ELSE [polled |-> TRUE,
                    age    |-> IF sm.updated THEN mono.t - sm.logMonoTime
                               ELSE can_sent[i].age,
                    sends  |-> can_sent[i].sends + Len(cs)]]
      /\ UNCHANGED << mono, env >>
      /\ UNCHANGED side_vars
      /\ UNCHANGED << pc, pubs, replies, frame, do_exit, connected, engaged, is_onroad,
                      comms_healthy, ignition_opt, panda_safety, reads, dev, session, err >>

NextCan ==
  \/ PublishSendcan
  \/ AdvanceClock
  \/ CanSendTick

SpecCan == InitCan /\ [][NextCan]_vars

\* ------------------------------------- FaultSet and IR power on their own
\* The main thread and the CAN bridge at rest, for the specifications of the
\* other components.
MainParked ==
  /\ pc = "parked"
  /\ last = "start"
  /\ calls = << >>
  /\ pubs = << >>
  /\ replies = << >>
  /\ frame = 0
  /\ do_exit = FALSE
  /\ connected = TRUE
  /\ engaged = FALSE
  /\ is_onroad = FALSE
  /\ comms_healthy = TRUE
  /\ ignition_opt = None
  /\ panda_safety = PandaSafetyInit
  /\ reads = NoReads
  /\ dev = DevInit(NO_OUTPUT)
  /\ session = SessionInit
  /\ err = FALSE
  /\ CanInit

NoToggles ==
  [loopback |-> FALSE, fake_send |-> FALSE, spoofing_started |-> FALSE,
   no_fan_control |-> FALSE]

main_vars == << loop_vars, env, can_vars >>

\* health['faults'] is an unsigned 32-bit value; it is kept as two 16-bit halves
\* because the model's integers are signed 32-bit.
RECURSIVE Pow2(_)
Pow2(n) == IF n = 0 THEN 1 ELSE 2 * Pow2(n - 1)

RECURSIVE SumPow2(_)
SumPow2(S) == IF S = {} THEN 0
              ELSE LET b == CHOOSE x \in S : TRUE IN Pow2(b) + SumPow2(S \ {b})

\* The bitset with exactly the bits of S set.
Bitset(S) ==
  [lo |-> SumPow2({ b \in S : b < 16 }), hi |-> SumPow2({ b - 16 : b \in { x \in S : x >= 16 } })]

\* "faults_pkt & (1 << f)" is non-zero.
TestBit(faults_pkt, f) ==
  IF f < 16 THEN (faults_pkt.lo \div Pow2(f)) % 2 = 1
  ELSE (faults_pkt.hi \div Pow2(f - 16)) % 2 = 1

\* The loop over range(FAULT_RELAY_MALFUNCTION, FAULT_HEARTBEAT_LOOP_WATCHDOG + 1),
\* from bit f on.
RECURSIVE fault_list_from(_, _)
fault_list_from(faults_pkt, f) ==
  IF f > FAULT_HEARTBEAT_LOOP_WATCHDOG THEN << >>
  ELSE (IF TestBit(faults_pkt, f) THEN << f >> ELSE << >>)
       \o fault_list_from(faults_pkt, f + 1)

\* Variant of the fault decoding that lists every bit that is set.
faults_field_all_bits(faults_pkt) ==
  LET l == SelectSeq([i \in 1..32 |-> i - 1], LAMBDA f : TestBit(faults_pkt, f))
  IN  IF l # << >> THEN Some(l) ELSE None

\* The faults field of the published PandaState: the list, or None when the
\* field is not initialized ("if fault_list:").
faults_field(faults_pkt) ==
  LET fault_list == fault_list_from(faults_pkt, FAULT_RELAY_MALFUNCTION)
  IN  IF fault_list # << >> THEN Some(fault_list) ELSE None

\* Variant of the IR power mapping without dead band and saturation.
ir_power_unclamped(cur_integ_lines) ==
  (100 * (cur_integ_lines - CUTOFF_IL)) \div (SATURATE_IL - CUTOFF_IL)

\* PeripheralStateProcessor.update, the mapping of the filtered integrated lines
\* to ir_pwr.
ir_power(cur_integ_lines) ==
  IF cur_integ_lines <= CUTOFF_IL THEN 0
  ELSE IF cur_integ_lines > SATURATE_IL THEN 100
  ELSE (100 * (cur_integ_lines - CUTOFF_IL)) \div (SATURATE_IL - CUTOFF_IL)

\* The bits the explored fault bitsets are made of.
FaultBits == {0, 1, 2, 15, 16, 26, 27, 31}

IntegLines == (CUTOFF_IL - LinesMargin)..(SATURATE_IL + LinesMargin)

InitFn ==
  /\ MainParked
  /\ env = NoToggles
  /\ peripheral = PeripheralInit
  /\ hwmon = HwmonIdle
  /\ wifi = WifiIdle
  /\ \/ \E S \in SUBSET FaultBits :
          fn = [op |-> "faults", bits |-> S, arg |-> Bitset(S), done |-> FALSE, val |-> None]
     \/ \E L \in IntegLines :
          fn = [op |-> "ir_power", bits |-> {}, arg |-> L, done |-> FALSE, val |-> None]

\* send_panda_states converts the faults bitset.
DecodeFaults ==
  /\ fn.op = "faults"
  /\ ~fn.done
  /\ fn' = [fn EXCEPT !.done = TRUE, !.val = faults_field(fn.arg)]
  /\ UNCHANGED << main_vars, peripheral, hwmon, wifi >>

\* update maps the filtered integrated lines to the IR power.
IrPower ==
  /\ fn.op = "ir_power"
  /\ ~fn.done
  /\ fn' = [fn EXCEPT !.done = TRUE, !.val = ir_power(fn.arg)]
  /\ UNCHANGED << main_vars, peripheral, hwmon, wifi >>

NextFn ==
  \/ DecodeFaults
  \/ IrPower

SpecFn == InitFn /\ [][NextFn]_vars

\* ------------------------------------------- PeripheralStateProcessor
SetFanPower(v) == << "set_fan_power", v >>
SetIrPower(v) == << "set_ir_power", v >>
HardwareSetIrPower(v) == << "HARDWARE.set_ir_power", v >>

\* Variant that sends the 0..100 target as it is.
ir_panda_unscaled(ir_pwr) == ir_pwr

\* round(ir_pwr * MAX_IR_PANDA_VAL / 100): Python rounds halves to even.
ir_panda(ir_pwr) ==
  LET n == ir_pwr * MAX_IR_PANDA_VAL
      q == n \div 100
      r == n % 100
  IN  IF r < 50 THEN q
      ELSE IF r > 50 THEN q + 1
      ELSE IF q % 2 = 0 THEN q ELSE q + 1

\* Variant of update whose input timeout does not clear ir_pwr.
update_without_timeout(self, ds, cam, cur_time, no_fan_control, driver_view_param) ==
  LET frame1 == self.frame + 1
      fan_send == ds # None /\ ~no_fan_control
                  /\ (ds[1] # self.prev_fan_speed \/ frame1 % RESEND_PERIOD = 0)
      restart == cam # None /\ cam[1].frameId < self.prev_frame_id
      ir1 == IF cam # None THEN ir_power(cam[1].filtered) ELSE self.ir_pwr
      t1 == IF cam # None THEN cam[1].logMonoTime ELSE self.last_driver_camera_t
      ir_send == ir1 # self.prev_ir_pwr \/ frame1 % RESEND_PERIOD = 0
  IN  [self  |-> [self EXCEPT
                    !.frame = frame1,
                    !.prev_fan_speed = IF fan_send THEN ds[1] ELSE @,
                    !.driver_view = IF restart THEN driver_view_param ELSE @,
                    !.prev_frame_id = IF cam # None THEN cam[1].frameId ELSE @,
                    !.last_driver_camera_t = t1,
                    !.ir_pwr = ir1,
                    !.prev_ir_pwr = IF ir_send THEN ir1 ELSE @],
       calls |-> (IF fan_send THEN << SetFanPower(ds[1]) >> ELSE << >>)
                 \o (IF ir_send THEN << SetIrPower(ir_panda(ir1)), HardwareSetIrPower(ir1) >>
                     ELSE << >>)]

\* PeripheralStateProcessor.update. ds: the deviceState message when
\* sm.updated['deviceState'] (its fanSpeedPercentDesired), cam: the
\* driverCameraState event when updated (frameId, logMonoTime and what the active
\* FirstOrderFilter returns for its integLines), cur_time: time.monotonic() in
\* ns, driver_view_param: IsDriverViewEnabled as it would be read.
update(self, ds, cam, cur_time, no_fan_control, driver_view_param) ==
  LET frame1 == self.frame + 1
      fan_send == ds # None /\ ~no_fan_control
                  /\ (ds[1] # self.prev_fan_speed \/ frame1 % RESEND_PERIOD = 0)
      restart == cam # None /\ cam[1].frameId < self.prev_frame_id
      ir0 == IF cam # None THEN ir_power(cam[1].filtered) ELSE self.ir_pwr
      t1 == IF cam # None THEN cam[1].logMonoTime ELSE self.last_driver_camera_t
      ir1 == IF cur_time - t1 > IR_TIMEOUT_NS THEN 0 ELSE ir0
      ir_send == ir1 # self.prev_ir_pwr \/ frame1 % RESEND_PERIOD = 0
  IN  [self  |-> [self EXCEPT
                    !.frame = frame1,
                    !.prev_fan_speed = IF fan_send THEN ds[1] ELSE @,
                    !.driver_view = IF restart THEN driver_view_param ELSE @,
                    !.prev_frame_id = IF cam # None THEN cam[1].frameId ELSE @,
                    !.last_driver_camera_t = t1,
                    !.ir_pwr = ir1,
                    !.prev_ir_pwr = IF ir_send THEN ir1 ELSE @],
       calls |-> (IF fan_send THEN << SetFanPower(ds[1]) >> ELSE << >>)
                 \o (IF ir_send THEN << SetIrPower(ir_panda(ir1)), HardwareSetIrPower(ir1) >>
                     ELSE << >>)]

\* fanSpeedPercentDesired values and filtered integrated lines explored.
FanSpeeds == {30, 60}
FilteredLines == {300, 700, 1200}
FrameIds == {1, 2}

\* One update call with its inputs drawn from DS and CAM; a camera event is
\* stamped at the clock or one clock step earlier, never before the previous one.
Update(DS, CAM, max_updates) ==
  /\ peripheral.frame < max_updates
  /\ \E ds \in DS, c \in CAM, back \in {0} \cup ClockSteps, dv \in BOOLEAN :
       /\ back <= mono.t
       /\ c # None => mono.t - back >= peripheral.last_driver_camera_t
       /\ c = None => back = 0
       /\ dv => (c # None /\ c[1].frameId < peripheral.prev_frame_id)
       /\ LET cam == IF c = None THEN None
                     ELSE Some([c[1] EXCEPT !.logMonoTime = mono.t - back])
              r == update(peripheral, ds, cam, mono.t, env.no_fan_control, dv)
              fan_sent == \E i \in 1..Len(r.calls) : r.calls[i][1] = "set_fan_power"
              ir_sent == \E i \in 1..Len(r.calls) : r.calls[i][1] = "set_ir_power"
              seen == cam # None \/ peripheral.cam_age # None
          IN  /\ peripheral' =
                   [r.self EXCEPT
                      !.since_fan = IF fan_sent THEN 0 ELSE @ + 1,
                      !.ir_commanded =
                         IF ir_sent
                           THEN Some(r.calls[CHOOSE i \in 1..Len(r.calls) :
                                               r.calls[i][1] = "set_ir_power"][2])
                           ELSE @,
                      !.cam_age = IF seen THEN Some(mono.t - r.self.last_driver_camera_t)
                                  ELSE None]
              /\ calls' = r.calls
  /\ last' = "peripheral_update"
  /\ UNCHANGED << pc, pubs, replies, frame, do_exit, connected, engaged, is_onroad,
                  comms_healthy, ignition_opt, panda_safety, reads, dev, session, err >>
  /\ UNCHANGED << env, can_vars, fn, hwmon, wifi >>

InitPeripheral ==
  /\ MainParked
  /\ env \in [loopback : {FALSE}, fake_send : {FALSE}, spoofing_started : {FALSE},
               no_fan_control : BOOLEAN]
  /\ fn = FnIdle
  /\ peripheral = PeripheralInit
  /\ hwmon = HwmonIdle
  /\ wifi = WifiIdle

\* The fan over many updates: deviceState messages arrive or not, no camera.
UpdateFan == Update({None} \cup { Some(v) : v \in FanSpeeds }, {None}, MaxFanUpdates)

SpecFan == InitPeripheral /\ [][UpdateFan]_vars

\* The IR power over a few updates: camera events arrive or not, time passes.
UpdateIr ==
  Update({None},
         {None} \cup { Some([frameId |-> f, filtered |-> l, logMonoTime |-> 0]) :
                         f \in FrameIds, l \in FilteredLines },
         MaxIrUpdates)

NextIr ==
  \/ UpdateIr
  \/ AdvanceClock

SpecIr == InitPeripheral /\ [][NextIr]_vars

\* The IR power over many updates, past the 100th: camera events arrive or not
\* at a clock that stands still.
UpdateIrCadence ==
  Update({None},
         {None} \cup { Some([frameId |-> 1, filtered |-> l, logMonoTime |-> 0]) :
                         l \in FilteredLines \cup {CUTOFF_IL + 30} },
         MaxFanUpdates)

SpecIrCadence == InitPeripheral /\ [][UpdateIrCadence]_vars

\* ---------------------------------------------------------- HwmonReader
\* threading.Lock: acquire succeeds when nobody holds the lock.
acquire_unchecked(lock, who) == [ok |-> TRUE, lock |-> lock]

acquire(lock, who) == [ok |-> lock = "free", lock |-> who]

release(lock, who) == IF lock = who THEN "free" ELSE lock

\* The handle the reader thread reads the sensors from.
HwmonSource_panda == "panda"

HwmonSource == "HARDWARE"

\* Variant of _run that takes the lock before reading the sensors.
reader_next_locks_first(rpc) ==
  CASE rpc = "loop" -> "lock"
    [] rpc = "lock" -> "get_voltage"
    [] rpc = "get_voltage" -> "get_current"
    [] rpc = "get_current" -> "store_voltage"
    [] rpc = "store_voltage" -> "store_current"
    [] rpc = "store_current" -> "unlock"
    [] rpc = "unlock" -> "sleep"
    [] OTHER -> "loop"

\* HwmonReader._run, the order of one iteration's statements.
reader_next(rpc) ==
  CASE rpc = "loop" -> "get_voltage"
    [] rpc = "get_voltage" -> "get_current"
    [] rpc = "get_current" -> "lock"
    [] rpc = "lock" -> "store_voltage"
    [] rpc = "store_voltage" -> "store_current"
    [] rpc = "store_current" -> "unlock"
    [] rpc = "unlock" -> "sleep"
    [] OTHER -> "loop"

\* Variant of _run whose loop ends when a sensor read raises.
on_read_exception_ends_loop(h) ==
  [h EXCEPT !.rpc = "stopped", !.lock = release(h.lock, "reader")]

\* HwmonReader._run, "except Exception": the failure is logged and the
\* iteration goes on to its sleep; nothing was stored.
on_read_exception(h) == [h EXCEPT !.rpc = "sleep", !.lock = release(h.lock, "reader")]

\* Variant of send_peripheral_state in which a failed query ends the call.
after_query_abort_on_failure(mpc, ok) ==
  IF ~ok THEN "idle" ELSE IF mpc = "fallback" THEN "fan_rpm" ELSE "publish"

\* send_peripheral_state: where the call goes on after a device query; both
\* except clauses pass.
after_query(mpc, ok) == IF mpc = "fallback" THEN "fan_rpm" ELSE "publish"

\* (voltage, current) in mV / mA as the sensors may read, and the device's own
\* measurement in health().
Readings == { << 12000, 500 >>, << 0, 700 >> }
DeviceVoltageCurrent == << 12100, 400 >>
FanRpms == {1500}

\* The handle on which a thread has a call in progress, "none" when it has none.
InCall(thread) ==
  IF thread = "reader"
    THEN IF hwmon.rpc \in {"get_voltage", "get_current", "blocked"} THEN HwmonSource
         ELSE "none"
    ELSE IF hwmon.mpc \in {"fallback", "fan_rpm"} THEN "panda" ELSE "none"

hwmon_frame == << main_vars, fn, peripheral, wifi >>

InitHwmon ==
  /\ MainParked
  /\ env = NoToggles
  /\ fn = FnIdle
  /\ peripheral = PeripheralInit
  /\ wifi = WifiIdle
  /\ \E started \in BOOLEAN :
       hwmon = [HwmonIdle EXCEPT !.rpc = IF started THEN "loop" ELSE "unstarted"]

\* "while not do_exit" and, after the sleep, the next iteration.
ReaderLoop ==
  /\ hwmon.rpc \in {"loop", "sleep"}
  /\ hwmon.rpc = "loop" => hwmon.writes < MaxWrites
  /\ hwmon' = [hwmon EXCEPT
                 !.rpc = IF hwmon.rpc = "sleep" THEN "loop"
                         ELSE IF do_exit THEN "stopped" ELSE reader_next("loop"),
                 !.writes = IF hwmon.rpc = "loop" THEN @ + 1 ELSE @]
  /\ UNCHANGED hwmon_frame

\* HARDWARE.get_voltage() / get_current(): returns a value, raises (the except
\* clause logs and the iteration ends in the sleep), or never returns.
ReaderRead ==
  /\ hwmon.rpc \in {"get_voltage", "get_current"}
  /\ \E outcome \in {"value", "raise", "block"}, rd \in Readings :
       hwmon' =
         CASE outcome = "block" -> [hwmon EXCEPT !.rpc = "blocked"]
           [] outcome = "raise" -> on_read_exception(hwmon)
           [] OTHER ->
                IF hwmon.rpc = "get_voltage"
                  THEN [hwmon EXCEPT !.rv = rd[1], !.rpc = reader_next("get_voltage")]
                  ELSE [hwmon EXCEPT !.rc = rd[2], !.rpc = reader_next("get_current")]
  /\ UNCHANGED hwmon_frame

\* "with self._lock:" in _run.
ReaderLock ==
  /\ hwmon.rpc = "lock"
  /\ acquire(hwmon.lock, "reader").ok
  /\ hwmon' = [hwmon EXCEPT !.lock = acquire(hwmon.lock, "reader").lock,
                            !.rpc = reader_next("lock")]
  /\ UNCHANGED hwmon_frame

\* self.voltage = voltage; self.current = current
ReaderStore ==
  /\ hwmon.rpc \in {"store_voltage", "store_current"}
  /\ hwmon' =
       IF hwmon.rpc = "store_voltage"
         THEN [hwmon EXCEPT !.voltage = hwmon.rv, !.rpc = reader_next("store_voltage")]
         ELSE [hwmon EXCEPT !.current = hwmon.rc, !.rpc = reader_next("store_current"),
                            !.written = @ \cup { << hwmon.rv, hwmon.rc >> }]
  /\ UNCHANGED hwmon_frame

\* Leaving the with block in _run.
ReaderUnlock ==
  /\ hwmon.rpc = "unlock"
  /\ hwmon' = [hwmon EXCEPT !.lock = release(hwmon.lock, "reader"),
                            !.rpc = reader_next("unlock")]
  /\ UNCHANGED hwmon_frame

\* send_peripheral_state is called: new message, then hwmon_reader.get().
MainStart ==
  /\ hwmon.mpc = "idle"
  /\ hwmon.gets < MaxGets
  /\ hwmon' = [hwmon EXCEPT !.mpc = "get_lock", !.gets = @ + 1,
                            !.ps = [voltage |-> 0, current |-> 0, fanSpeedRpm |-> 0]]
  /\ pubs' = << >>
  /\ replies' = << >>
  /\ last' = "send_peripheral_state"
  /\ UNCHANGED << pc, calls, frame, do_exit, connected, engaged, is_onroad,
                  comms_healthy, ignition_opt, panda_safety, reads, dev, session, err >>
  /\ UNCHANGED << env, can_vars, fn, peripheral, wifi >>

\* "with self._lock:" in get().
MainGetLock ==
  /\ hwmon.mpc = "get_lock"
  /\ acquire(hwmon.lock, "main").ok
  /\ hwmon' = [hwmon EXCEPT !.lock = acquire(hwmon.lock, "main").lock,
                            !.mpc = "get_voltage"]
  /\ UNCHANGED hwmon_frame

\* "return self.voltage, self.current": the two attribute reads.
MainGetRead ==
  /\ hwmon.mpc \in {"get_voltage", "get_current"}
  /\ hwmon' =
       IF hwmon.mpc = "get_voltage"
         THEN [hwmon EXCEPT !.mv = hwmon.voltage, !.mpc = "get_current"]
         ELSE [hwmon EXCEPT !.mc = hwmon.current, !.mpc = "get_unlock"]
  /\ UNCHANGED hwmon_frame

\* Leaving the with block in get(); ps.voltage and ps.current are assigned.
MainGetUnlock ==
  /\ hwmon.mpc = "get_unlock"
  /\ hwmon' = [hwmon EXCEPT !.lock = release(hwmon.lock, "main"),
                            !.ps = [@ EXCEPT !.voltage = hwmon.mv, !.current = hwmon.mc],
                            !.mpc = IF hwmon.mv = 0 /\ hwmon.mc = 0 THEN "fallback"
                                    ELSE "fan_rpm"]
  /\ UNCHANGED hwmon_frame

\* The fallback to panda.health() and panda.get_fan_rpm(): each may raise, and
\* the except clause passes.
MainQuery ==
  /\ hwmon.mpc \in {"fallback", "fan_rpm"}
  /\ \E ok \in BOOLEAN, rpm \in FanRpms :
       IF hwmon.mpc = "fallback"
         THEN /\ hwmon' = [hwmon EXCEPT
                             !.ps = IF ok THEN [@ EXCEPT !.voltage = DeviceVoltageCurrent[1],
                                                         !.current = DeviceVoltageCurrent[2]]
                                    ELSE @,
                             !.mpc = after_query("fallback", ok)]
              /\ replies' = Append(replies, << "health", ok,
                                               IF ok THEN DeviceVoltageCurrent ELSE << >> >>)
         ELSE /\ hwmon' = [hwmon EXCEPT
                             !.ps = IF ok THEN [@ EXCEPT !.fanSpeedRpm = rpm] ELSE @,
                             !.mpc = after_query("fan_rpm", ok)]
              /\ replies' = Append(replies, << "get_fan_rpm", ok, IF ok THEN rpm ELSE 0 >>)
  /\ UNCHANGED << pc, last, calls, pubs, frame, do_exit, connected, engaged, is_onroad,
                  comms_healthy, ignition_opt, panda_safety, reads, dev, session, err >>
  /\ UNCHANGED << env, can_vars, fn, peripheral, wifi >>

\* pm.send('peripheralState', msg)
MainPublish ==
  /\ hwmon.mpc = "publish"
  /\ hwmon' = [hwmon EXCEPT !.mpc = "idle"]
  /\ pubs' = Append(pubs, << "peripheralState", TRUE, hwmon.ps >>)
  /\ UNCHANGED << pc, last, calls, replies, frame, do_exit, connected, engaged, is_onroad,
                  comms_healthy, ignition_opt, panda_safety, reads, dev, session, err >>
  /\ UNCHANGED << env, can_vars, fn, peripheral, wifi >>

NextHwmon ==
  \/ ReaderLoop
  \/ ReaderRead
  \/ ReaderLock
  \/ ReaderStore
  \/ ReaderUnlock
  \/ MainStart
  \/ MainGetLock
  \/ MainGetRead
  \/ MainGetUnlock
  \/ MainQuery
  \/ MainPublish

SpecHwmon == InitHwmon /\ [][NextHwmon]_vars

\* The scheduler runs a thread that can run: the reader inside its with block
\* goes on to release the lock, the main thread goes on through get(), and
\* its acquire succeeds when the lock keeps becoming free (the reader sleeps
\* 0.5 s per iteration). Nothing is assumed of the sensor reads.
SpecHwmonLive ==
  /\ SpecHwmon
  /\ WF_vars(ReaderStore)
  /\ WF_vars(ReaderUnlock)
  /\ SF_vars(MainGetLock)
  /\ WF_vars(MainGetRead)
  /\ WF_vars(MainGetUnlock)

\* ---------------------------------------------------------- WifiUIMici
Ssids == {"home", "cafe"}
SecurityTypes == {"OPEN", "WPA", "UNSUPPORTED"}

\* Dicts of scanned networks: ssid -> security type.
Scans == UNION { [S -> SecurityTypes] : S \in SUBSET Ssids }

WifiStates ==
  {WifiStateInit}
    \cup [ssid : {Some(x) : x \in Ssids}, status : {"CONNECTING", "CONNECTED"}]

\* The wifi manager: both ways of connecting set the state at once.
is_connection_saved(saved, ssid) == ssid \in saved

activate_connection(ssid) == [ssid |-> Some(ssid), status |-> "CONNECTING"]

connect_to_network(ssid, password) == [ssid |-> Some(ssid), status |-> "CONNECTING"]

\* _update_buttons, the first loop: a scanned network with an item has the item
\* refreshed (its missing mark cleared), any other gets a new item at the end.
RECURSIVE add_buttons(_, _, _)
add_buttons(items, missing, order) ==
  IF order = << >> THEN [items |-> items, missing |-> missing]
  ELSE LET ssid == Head(order)
       IN  IF \E i \in 1..Len(items) : items[i] = ssid
             THEN add_buttons(items, missing \ {ssid}, Tail(order))
             ELSE add_buttons(Append(items, ssid), missing, Tail(order))

\* items.insert(0, items.pop(idx))
move_to_front(items, idx) ==
  << items[idx] >> \o SubSeq(items, 1, idx - 1) \o SubSeq(items, idx + 1, Len(items))

\* Variant of _update_buttons that leaves the items in the order they have.
update_buttons_keeps_order(w) ==
  LET a == add_buttons(w.items, w.missing, w.order)
  IN  [w EXCEPT !.items = a.items,
                !.missing = a.missing \cup { a.items[i] : i \in
                              { j \in 1..Len(a.items) : a.items[j] \notin DOMAIN w.networks } }]

\* WifiUIMici._update_buttons
update_buttons(w) ==
  LET a == add_buttons(w.items, w.missing, w.order)
      hits == { i \in 1..Len(a.items) : w.wifi_state.ssid = Some(a.items[i]) }
      moved == IF hits = {} THEN a.items
               ELSE LET idx == CHOOSE i \in hits : \A j \in hits : i <= j
                    IN  IF idx > 1 THEN move_to_front(a.items, idx) ELSE a.items
  IN  [w EXCEPT !.items = moved,
                !.missing = a.missing \cup { moved[i] : i \in
                              { j \in 1..Len(moved) : moved[j] \notin DOMAIN w.networks } }]

\* _on_need_auth: the password dialog opens; no wifi state is touched.
on_need_auth(w, ssid) == [w EXCEPT !.dialog = Some(ssid)]

\* Variant that connects with an empty password whatever the security type.
WifiUIMici_connect_to_network_skips_dialog(w, ssid) ==
  IF ssid \notin DOMAIN w.networks THEN w
  ELSE update_buttons([w EXCEPT !.wifi_state = connect_to_network(ssid, "")])

\* WifiUIMici._connect_to_network(ssid)
WifiUIMici_connect_to_network(w, ssid) ==
  IF ssid \notin DOMAIN w.networks THEN w
  ELSE IF is_connection_saved(w.saved, ssid)
    THEN update_buttons([w EXCEPT !.wifi_state = activate_connection(ssid)])
  ELSE IF w.networks[ssid] = "OPEN"
    THEN update_buttons([w EXCEPT !.wifi_state = connect_to_network(ssid, "")])
  ELSE on_need_auth(w, ssid)

wifi_frame == << main_vars, fn, peripheral, hwmon >>

InitWifi ==
  /\ MainParked
  /\ env = NoToggles
  /\ fn = FnIdle
  /\ peripheral = PeripheralInit
  /\ hwmon = HwmonIdle
  /\ wifi = WifiIdle

\* WifiUIMici._on_network_updated(networks)
OnNetworkUpdated ==
  /\ \E scan \in Scans :
       \E order \in { q \in [1..Cardinality(DOMAIN scan) -> DOMAIN scan] :
                         \A i, j \in DOMAIN q : q[i] = q[j] => i = j } :
         wifi' = [update_buttons([wifi EXCEPT !.networks = scan, !.order = order])
                    EXCEPT !.clicked = None, !.before = WifiStateInit,
                           !.need_auth = None, !.op = "on_network_updated"]
  /\ UNCHANGED wifi_frame

\* WifiUIMici.show_event: the items are cleared and built again.
ShowEvent ==
  /\ wifi' = [update_buttons([wifi EXCEPT !.items = << >>, !.missing = {}])
                EXCEPT !.clicked = None, !.before = WifiStateInit,
                       !.need_auth = None, !.op = "show_event"]
  /\ UNCHANGED wifi_frame

\* The manager reports a failed authentication: _on_need_auth(ssid).
OnNeedAuth ==
  /\ \E ssid \in Ssids :
       wifi' = [on_need_auth(wifi, ssid) EXCEPT
                  !.clicked = None, !.before = WifiStateInit,
                  !.need_auth = Some(ssid), !.op = "on_need_auth"]
  /\ UNCHANGED wifi_frame

\* The manager's own changes: a connection attempt, a connection made, a
\* disconnect, and the set of saved connections.
ManagerChanges ==
  /\ \E st \in WifiStates, saved \in SUBSET Ssids :
       wifi' = [wifi EXCEPT !.wifi_state = st, !.saved = saved,
                            !.clicked = None, !.before = WifiStateInit,
                            !.need_auth = None, !.op = "manager"]
  /\ UNCHANGED wifi_frame

\* The user picks a network: _connect_to_network(ssid), also for an ssid that
\* the latest scan no longer holds.
ConnectToNetwork ==
  /\ \E ssid \in Ssids :
       wifi' = [WifiUIMici_connect_to_network(wifi, ssid) EXCEPT
                  !.clicked = Some(ssid), !.before = wifi.wifi_state,
                  !.need_auth = IF wifi.op = "on_need_auth" THEN wifi.need_auth ELSE None,
                  !.op = "connect_to_network"]
  /\ UNCHANGED wifi_frame

\* The password dialog is closed.
DialogClosed ==
  /\ wifi.dialog # None
  /\ wifi' = [wifi EXCEPT !.dialog = None, !.clicked = None, !.before = WifiStateInit,
                          !.need_auth = None, !.op = "dialog_closed"]
  /\ UNCHANGED wifi_frame

NextWifi ==
  \/ OnNetworkUpdated
  \/ ShowEvent
  \/ OnNeedAuth
  \/ ManagerChanges
  \/ ConnectToNetwork
  \/ DialogClosed

SpecWifi == InitWifi /\ [][NextWifi]_vars

\* ================================================================ claims
\* --- under Spec (the daemon loop)

\* C1: a vehicle-specific set_safety_mode is issued only by
\* configure_safety_mode(is_onroad = true), in a call that read FirmwareQueryDone
\* and ControlsReady true and a non-empty CarParams, and every safety-mode write
\* made earlier in that onroad session is ELM327 or NO_OUTPUT.
C1_VehicleModeOnlyAfterHandshake ==
  \A i \in 1..Len(calls) :
    (IsSafetyWrite(calls[i]) /\ VehicleSpecific(calls[i][2])) =>
      /\ last = "configure_safety_mode"
      /\ is_onroad
      /\ {"FirmwareQueryDone", "ControlsReady", "CarParams"} \subseteq reads.truthy
      /\ session.before \subseteq {ELM327, NO_OUTPUT}
      /\ \A j \in 1..(i - 1) :
           IsSafetyWrite(calls[j]) => calls[j][2] \in {ELM327, NO_OUTPUT}

C1_Witness ==
  /\ last = "configure_safety_mode"
  /\ \E i \in 1..Len(calls) : IsSafetyWrite(calls[i]) /\ VehicleSpecific(calls[i][2])
  /\ session.before = {ELM327, NO_OUTPUT}

\* C2 (as claimed): after configure_safety_mode(false) the state machine is
\* UNINITIALIZED and the device is not in a vehicle-specific safety mode, whether
\* or not the tick's health query succeeded.
C2_OffroadLeavesNoVehicleMode ==
  (last = "configure_safety_mode" /\ ~is_onroad) =>
    /\ ~panda_safety.initialized
    /\ ~panda_safety.safety_configured
    /\ ~panda_safety.log_once
    /\ ~VehicleSpecific(dev.safety_mode)

\* C3 (as claimed): a send_panda_states call with ignition-local false or
\* is_onroad false leaves the device in NO_OUTPUT, and issues no set_safety_mode
\* when the device already reports NO_OUTPUT.
C3_RelayClosedAfterPandaStates ==
  [][ (pc = "send_panda_states" /\ (~is_onroad' \/ ignition_opt' = Some(FALSE))) =>
        /\ dev'.safety_mode = NO_OUTPUT
        /\ (dev.safety_mode = NO_OUTPUT => SafetyWrites(calls') = << >>) ]_vars

\* C4 (as claimed): once a health query has failed or the exit flag is set, every
\* set_safety_mode issued is NO_OUTPUT or ELM327, and the device is not in a
\* vehicle-specific mode when the handle has been closed.
C4_NoVehicleModeOnErrorPaths ==
  /\ err => \A i \in 1..Len(calls) :
              IsSafetyWrite(calls[i]) => calls[i][2] \in {NO_OUTPUT, ELM327}
  /\ pc = "done" => ~VehicleSpecific(dev.safety_mode)

C10_ConfiguredOncePerSession ==
  /\ [](/\ session.alt <= 1
        /\ session.set <= 1
        /\ panda_safety.safety_configured => (session.alt = 1 /\ session.set = 1)
        /\ \A i \in 1..Len(calls) :
             calls[i][1] = "set_alternative_experience" =>
               /\ last = "configure_safety_mode"
               /\ i = Len(calls) - 1
               /\ IsSafetyWrite(calls[i + 1]))
  /\ [][ (pc = "configure_safety_mode" /\ is_onroad /\ panda_safety.safety_configured) =>
           /\ calls' = << >>
           /\ reads' = NoReads
           /\ UNCHANGED << dev, panda_safety, session >> ]_vars

C10_Witness ==
  /\ last = "configure_safety_mode"
  /\ is_onroad
  /\ panda_safety.safety_configured
  /\ session.alt = 1 /\ session.set = 1
  /\ calls = << >>
  /\ frame >= PANDA_STATE_PERIOD

\* --- under SpecCan (the CAN bridge)

\* Age of the message the SubMaster holds, on the tick that polled it.
SendcanAge ==
  IF sendcan_sm.id \in DOMAIN can_sent THEN can_sent[sendcan_sm.id].age ELSE 0

\* C6: a sendcan message more than 1 second old when it arrives is never passed
\* to can_send_many, on the tick it arrives or on any later tick.
C6_StaleSendcanNeverSent ==
  /\ \A id \in DOMAIN can_sent :
       (can_sent[id].polled /\ can_sent[id].age > SENDCAN_MAX_AGE_NS) =>
         can_sent[id].sends = 0
  /\ (last = "can_send" /\ sendcan_sm.updated /\ SendcanAge > SENDCAN_MAX_AGE_NS) =>
       calls = << >>

C6_Witness ==
  /\ env.fake_send = FALSE
  /\ last = "can_send"
  /\ ~sendcan_sm.updated
  /\ sendcan_sm.id \in DOMAIN can_sent
  /\ can_sent[sendcan_sm.id].polled
  /\ can_sent[sendcan_sm.id].age = SENDCAN_MAX_AGE_NS + 1
  /\ can_sent[sendcan_sm.id].sends = 0

\* C7 (as claimed): a newly arrived sendcan message not more than 1 second old,
\* one exactly 1 second old included, with no toggle set, causes exactly one
\* can_send_many call with its frames as (address, data, bus) tuples in order.
C7_FreshSendcanSentOnce ==
  /\ \A id \in DOMAIN can_sent :
       (can_sent[id].polled /\ can_sent[id].age <= SENDCAN_MAX_AGE_NS
          /\ ~env.fake_send /\ ~env.loopback) =>
         can_sent[id].sends = 1
  /\ (last = "can_send" /\ sendcan_sm.updated /\ SendcanAge <= SENDCAN_MAX_AGE_NS
        /\ ~env.fake_send /\ ~env.loopback) =>
       /\ Len(calls) = 1
       /\ calls[1][1] = "can_send_many"
       /\ Len(calls[1][2]) = Len(sendcan_sm.msg)
       /\ \A i \in 1..Len(sendcan_sm.msg) :
            calls[1][2][i] = << sendcan_sm.msg[i].address, sendcan_sm.msg[i].dat,
                                sendcan_sm.msg[i].src >>

\* C8: a tick on which no new sendcan message arrived issues no device write, so
\* no sendcan message is passed to can_send_many more than once.
C8_NoNewSendcanNoWrite ==
  /\ (last = "can_send" /\ ~sendcan_sm.updated) => calls = << >>
  /\ \A id \in DOMAIN can_sent : can_sent[id].sends <= 1

C8_Witness ==
  /\ last = "can_send"
  /\ ~sendcan_sm.updated
  /\ calls = << >>
  /\ sendcan_sm.id \in DOMAIN can_sent
  /\ can_sent[sendcan_sm.id].sends = 1

\* C9 (as claimed): with the loopback/test override toggle set, a sendcan message
\* older than 1 second is submitted with can_send_many like a fresh one.
C9_ToggleOverridesStaleness ==
  (last = "can_send" /\ sendcan_sm.updated /\ (env.fake_send \/ env.loopback)
     /\ SendcanAge > SENDCAN_MAX_AGE_NS) =>
    (Len(calls) = 1 /\ calls[1][1] = "can_send_many")

\* C9 (amended): no toggle exempts a sendcan message from the staleness test: with
\* FAKESEND or BOARDD_LOOPBACK set, a message older than 1 second is still dropped,
\* and with FAKESEND set no message, fresh or stale, reaches can_send_many.
C9_NoToggleOverridesStaleness ==
  /\ (last = "can_send" /\ sendcan_sm.updated /\ (env.fake_send \/ env.loopback)
        /\ SendcanAge > SENDCAN_MAX_AGE_NS) => calls = << >>
  /\ (last = "can_send" /\ env.fake_send) => calls = << >>

C9_Witness ==
  /\ last = "can_send"
  /\ sendcan_sm.updated
  /\ env.fake_send
  /\ SendcanAge > SENDCAN_MAX_AGE_NS
  /\ calls = << >>

\* --- under Spec (the daemon loop): the handshake, the loop's phases, the publishes
\* C11: a configure_safety_mode(true) call that finds the state machine
\* uninitialized issues set_safety_mode(ELM327, 1) as its first device write, and
\* when FirmwareQueryDone or ControlsReady does not read true it ends with the
\* machine not configured and without any vehicle-specific set_safety_mode.
C11_HandshakeStartsWithElm327 ==
  [][ (pc = "configure_safety_mode" /\ is_onroad /\ ~panda_safety.initialized) =>
        /\ calls' # << >>
        /\ calls'[1] = SetSafetyMode(ELM327, 1)
        /\ ~({"FirmwareQueryDone", "ControlsReady"} \subseteq reads'.truthy) =>
              /\ ~panda_safety'.safety_configured
              /\ \A i \in 1..Len(calls') :
                    IsSafetyWrite(calls'[i]) => ~VehicleSpecific(calls'[i][2]) ]_vars

\* The first onroad call has run with the firmware query done and ControlsReady
\* still false: one write, ELM327 with param 1, and the machine is fingerprinting.
C11_Witness ==
  /\ last = "configure_safety_mode"
  /\ is_onroad
  /\ calls = << SetSafetyMode(ELM327, 1) >>
  /\ "FirmwareQueryDone" \in reads.truthy
  /\ "ControlsReady" \notin reads.truthy
  /\ panda_safety.initialized
  /\ ~panda_safety.safety_configured
  /\ dev.safety_mode = ELM327
  /\ dev.safety_param = 1

\* C12: configure_safety_mode(false) leaves the machine uninitialized and
\* unconfigured whatever it was; a configure_safety_mode(true) call that finds it
\* uninitialized issues set_safety_mode(ELM327, 1) first, compares
\* ObdMultiplexingEnabled with false (a second ELM327 write, param 0, and
\* ObdMultiplexingChanged exactly when it reads true), and sets a vehicle-specific
\* mode only after reading FirmwareQueryDone, ControlsReady and CarParams in
\* that same call.
C12_OffroadResetsHandshake ==
  [][ pc = "configure_safety_mode" =>
        /\ ~is_onroad =>
              /\ ~panda_safety'.initialized
              /\ ~panda_safety'.safety_configured
              /\ ~panda_safety'.log_once
        /\ (is_onroad /\ ~panda_safety.initialized) =>
              LET obd == "ObdMultiplexingEnabled" \in reads'.truthy
                  mux == << SetSafetyMode(ELM327, 0),
                            PutBool("ObdMultiplexingChanged", TRUE) >>
              IN  /\ calls' # << >>
                  /\ calls'[1] = SetSafetyMode(ELM327, 1)
                  /\ obd <=> (Len(calls') >= 3 /\ SubSeq(calls', 2, 3) = mux)
                  /\ ~obd => \A i \in 2..Len(calls') : calls'[i][1] # "put_bool"
                                                        /\ calls'[i] # SetSafetyMode(ELM327, 1)
                  /\ panda_safety'.prev_obd_multiplexing = obd
                  /\ (\E i \in 1..Len(calls') :
                         IsSafetyWrite(calls'[i]) /\ VehicleSpecific(calls'[i][2])) =>
                       /\ reads'.keys = << "ObdMultiplexingEnabled", "FirmwareQueryDone",
                                           "ControlsReady", "CarParams" >>
                       /\ {"FirmwareQueryDone", "ControlsReady", "CarParams"}
                            \subseteq reads'.truthy ]_vars

\* A later 10 Hz tick of the loop, onroad again after an offroad tick: the call
\* found the machine uninitialized, issued ELM327 with param 1, then ELM327 with
\* param 0 for the multiplexing request, and went on to the vehicle's mode.
C12_Witness ==
  /\ last = "configure_safety_mode"
  /\ frame >= PANDA_STATE_PERIOD
  /\ is_onroad
  /\ Len(calls) = 5
  /\ SubSeq(calls, 1, 3) = << SetSafetyMode(ELM327, 1), SetSafetyMode(ELM327, 0),
                              PutBool("ObdMultiplexingChanged", TRUE) >>
  /\ calls[5] = SetSafetyMode("toyota", 7)
  /\ panda_safety.prev_obd_multiplexing
  /\ panda_safety.safety_configured

\* C13: a configure_safety_mode(true) call made while not configured compares
\* ObdMultiplexingEnabled with the last-applied value (false right after the
\* initial write): when they differ it issues set_safety_mode(ELM327, 0 if
\* requested else 1), records the request and writes ObdMultiplexingChanged=true;
\* when they are equal it issues no multiplexing write, keeps the recorded value
\* and does not write ObdMultiplexingChanged.
C13_MultiplexingFollowsRequest ==
  [][ (pc = "configure_safety_mode" /\ is_onroad /\ ~panda_safety.safety_configured) =>
        LET last_applied == panda_safety.initialized
                            /\ panda_safety.prev_obd_multiplexing
            obd == "ObdMultiplexingEnabled" \in reads'.truthy
            \* the calls after the initial write of an uninitialized machine
            m == IF panda_safety.initialized \/ calls' = << >> THEN calls'
                 ELSE Tail(calls')
        IN  /\ "ObdMultiplexingEnabled" \in { reads'.keys[i] : i \in 1..Len(reads'.keys) }
            /\ panda_safety'.prev_obd_multiplexing = obd
            /\ obd # last_applied =>
                  /\ Len(m) >= 2
                  /\ m[1] = SetSafetyMode(ELM327, IF obd THEN 0 ELSE 1)
                  /\ m[2] = PutBool("ObdMultiplexingChanged", TRUE)
            /\ obd = last_applied =>
                  \A i \in 1..Len(m) :
                    /\ m[i][1] # "put_bool"
                    /\ IsSafetyWrite(m[i]) => m[i][2] # ELM327 ]_vars

\* Multiplexing had been applied on an earlier tick and is no longer requested:
\* the call switches it off again (param 1) and flags the change.
C13_Witness ==
  /\ last = "configure_safety_mode"
  /\ is_onroad
  /\ calls = << SetSafetyMode(ELM327, 1), PutBool("ObdMultiplexingChanged", TRUE) >>
  /\ "ObdMultiplexingEnabled" \notin reads.truthy
  /\ ~panda_safety.prev_obd_multiplexing
  /\ ~panda_safety.safety_configured
  /\ dev.safety_mode = ELM327
  /\ dev.safety_param = 1

\* C14 (as claimed): a configure_safety_mode(true) call that got a non-empty
\* CarParams blob and did not reach the device writes of _set_safety_mode (the
\* blob does not parse, or has no safety configuration) raises nothing: the loop
\* goes on with the rest of the tick, the machine stays unconfigured and no
\* vehicle-specific set_safety_mode is issued.
C14_BadCarParamsRaisesNothing ==
  [][ (pc = "configure_safety_mode" /\ is_onroad /\ ~panda_safety.safety_configured
       /\ "CarParams" \in reads'.truthy
       /\ \A i \in 1..Len(calls') : calls'[i][1] # "set_alternative_experience") =>
        /\ pc' = AfterSafety(frame)
        /\ ~panda_safety'.safety_configured
        /\ \A i \in 1..Len(calls') :
              IsSafetyWrite(calls'[i]) => ~VehicleSpecific(calls'[i][2]) ]_vars

\* C15 (as claimed): once a health query or a per-bus health query has failed,
\* the loop does not start another tick.
C15_FailedHealthEndsLoop ==
  pc = "can_recv" => ~err

\* The health query and all PANDA_CAN_CNT per-bus queries of the last step returned.
HealthQueriesSucceeded ==
  /\ replies # << >>
  /\ replies[1][1] = "health"
  /\ replies[1][2]
  /\ Cardinality({ i \in 1..Len(replies) :
                     replies[i][1] = "can_health" /\ replies[i][3] }) = PANDA_CAN_CNT

\* pandaStates leaves only from send_panda_states on a 10 Hz tick, at most one per
\* tick, and exactly when all four queries of the tick succeeded.
PandaStatesIffQueriesSucceed ==
  /\ \A i \in 1..Len(pubs) :
        pubs[i][1] = "pandaStates" =>
          last = "send_panda_states" /\ frame % PANDA_STATE_PERIOD = 0
  /\ last = "send_panda_states" =>
        /\ Len(pubs) <= 1
        /\ (pubs # << >>) <=> HealthQueriesSucceeded
        /\ pubs # << >> => pubs[1][1] = "pandaStates" /\ pubs[1][2] = TRUE

\* C16 (as claimed): pandaStates is published on a 10 Hz tick if and only if the
\* health query and the three per-bus queries of that tick succeed, and a
\* published message is valid and carries the health values as read in the tick.
C16_PandaStatesCarryHealthAsRead ==
  /\ PandaStatesIffQueriesSucceed
  /\ (last = "send_panda_states" /\ pubs # << >>) =>
        pubs[1][3] = fill_panda_state(replies[1][3])

\* C16 (amended): pandaStates is published on a 10 Hz tick if and only if the
\* health query and the three per-bus queries of that tick succeed; a published
\* message is valid and carries the health values read in the tick, except that
\* ignitionLine is reported true whenever the startup spoofing flag is set.
C16_PandaStatesCarryHealthOrSpoof ==
  /\ PandaStatesIffQueriesSucceed
  /\ (last = "send_panda_states" /\ pubs # << >>) =>
        /\ pubs[1][3].ignitionLine = (env.spoofing_started \/ replies[1][3].ignition_line # 0)
        /\ pubs[1][3].ignitionCan = (replies[1][3].ignition_can # 0)
        /\ pubs[1][3].safetyModel = replies[1][3].safety_mode
        /\ pubs[1][3].safetyParam = replies[1][3].safety_param
        /\ pubs[1][3].powerSaveEnabled = (replies[1][3].power_save_enabled # 0)

\* A message published with the spoofing flag set while the device read the
\* ignition line low: the message says ignitionLine true.
C16_Witness ==
  /\ last = "send_panda_states"
  /\ HealthQueriesSucceeded
  /\ pubs # << >>
  /\ env.spoofing_started
  /\ replies[1][3].ignition_line = 0
  /\ pubs[1][3].ignitionLine

\* C17: a tick's CAN receive runs only right after a connectivity check that
\* found the device connected; when the check finds it not connected the loop
\* ends there, and from then on there is no CAN receive, no CAN send and no
\* publish.
C17_ConnectivityCheckedFirst ==
  /\ [](pc = "can_recv" => last = "check_connected" /\ connected /\ ~do_exit)
  /\ []((pc \in {"exit", "close", "done"}) =>
          /\ last \in {"check_connected", "close_relay", "close"}
          /\ pubs = << >>
          /\ \A i \in 1..Len(calls) : calls[i][1] \notin {"can_recv", "can_send_many"})
  /\ [][ (pc = "check" /\ ~connected') =>
            pc' = "exit" /\ do_exit' /\ pubs' = << >> /\ calls' = << >> ]_vars

\* The device was lost in the middle of a run: the check of a later tick found it
\* not connected and the loop ended without touching the CAN bridge.
C17_Witness ==
  /\ last = "check_connected"
  /\ frame > 0
  /\ ~connected
  /\ do_exit
  /\ pc = "exit"
  /\ pubs = << >>

\* C18 (as claimed): a tick that ends with its CAN receive failed, the device
\* connected and ignition-local (as last read) inactive has set the exit flag;
\* and the exit flag is never set by the reconnect decision while ignition-local
\* is active.
C18_FailedRecvAlwaysForcesReconnect ==
  /\ []((pc = "keep_time" /\ ~comms_healthy /\ connected /\ ignition_opt = Some(FALSE))
          => do_exit)
  /\ [][ (pc = "send_panda_states" /\ ~do_exit /\ do_exit') =>
            ignition_opt' = Some(FALSE) ]_vars

\* C18 (amended): the reconnect decision is taken on 10 Hz ticks only, after
\* send_panda_states: the exit flag is set there exactly when the health queries
\* succeeded, ignition-local is inactive and that tick's CAN receive failed; no
\* new tick starts once it is set; and apart from a lost device nothing else ends
\* the loop, so a failed receive with ignition-local active, on another tick or
\* with failed health queries, does not.
C18_ReconnectDecidedAt10Hz ==
  /\ [][ pc = "send_panda_states" =>
            (do_exit' <=> (do_exit \/ (ignition_opt' = Some(FALSE) /\ ~comms_healthy))) ]_vars
  /\ [][ (~do_exit /\ do_exit') =>
            \/ pc = "send_panda_states" /\ frame % PANDA_STATE_PERIOD = 0
            \/ pc = "check" /\ ~connected' ]_vars
  /\ [](do_exit => pc \notin {"can_recv", "can_send", "peripheral_update",
                               "send_panda_states"})

\* The decision has just been taken: the queries succeeded, the ignition is off,
\* this tick's receive had failed, the device is still connected, the flag is set.
C18_Witness ==
  /\ last = "send_panda_states"
  /\ HealthQueriesSucceeded
  /\ ignition_opt = Some(FALSE)
  /\ ~comms_healthy
  /\ connected
  /\ do_exit

\* The steps of one tick in the order the claim gives them, and on which tick
\* indices each is due.
TickSteps ==
  << "can_recv", "can_send", "peripheral_update", "send_panda_states",
     "send_heartbeat", "configure_safety_mode", "send_peripheral_state", "keep_time" >>

TickRank(step) == CHOOSE i \in 1..Len(TickSteps) : TickSteps[i] = step

TickDue(step, n) ==
  CASE step = "peripheral_update" -> n % PERIPHERAL_PERIOD = 0
    [] step \in {"send_panda_states", "send_heartbeat", "configure_safety_mode"} ->
         n % PANDA_STATE_PERIOD = 0
    [] step = "send_peripheral_state" -> n % PERIPHERAL_STATE_PERIOD = 0
    [] OTHER -> TRUE

InTick(p) == \E i \in 1..Len(TickSteps) : TickSteps[i] = p

\* C19: a tick starts with CAN receive, and within tick n every step is followed
\* by the next step of the order (receive, send, PeripheralStateProcessor.update,
\* health, heartbeat, safety, send_peripheral_state) that is due on n: update iff
\* n mod 5 = 0, health/heartbeat/safety iff n mod 10 = 0, send_peripheral_state
\* iff n mod 50 = 0; none that is due is skipped and none that is not due runs.
C19_PhasesInOrder ==
  /\ [][ pc = "check" => pc' \in {"can_recv", "exit"} ]_vars
  /\ [][ (InTick(pc) /\ InTick(pc') /\ pc # "keep_time") =>
            /\ frame' = frame
            /\ TickRank(pc') > TickRank(pc)
            /\ TickDue(pc', frame)
            /\ \A i \in (TickRank(pc) + 1)..(TickRank(pc') - 1) :
                  ~TickDue(TickSteps[i], frame) ]_vars
  /\ []((InTick(pc) /\ pc # "can_recv") =>
          /\ InTick(last)
          /\ TickRank(last) < TickRank(pc)
          /\ TickDue(last, frame)
          /\ \A i \in (TickRank(last) + 1)..(TickRank(pc) - 1) :
                ~TickDue(TickSteps[i], frame))

\* Tick 10 has run its 20 Hz and 10 Hz phases and goes to keep_time without
\* send_peripheral_state.
C19_Witness ==
  /\ frame = PANDA_STATE_PERIOD
  /\ last = "configure_safety_mode"
  /\ pc = "keep_time"

\* C20: the CAN receive step of a tick publishes exactly one 'can' message and
\* no other step publishes one; when panda.can_recv() returned, the message is
\* valid and holds every frame returned, in the order returned, and comms is
\* healthy; when it raised, the message is invalid with zero frames and comms is
\* unhealthy until the next tick's receive.
C20_OneCanMessagePerTick ==
  /\ [](\A i \in 1..Len(pubs) : pubs[i][1] = "can" => last = "can_recv")
  /\ [][ pc = "can_recv" =>
            /\ Len(pubs') = 1
            /\ pubs'[1][1] = "can"
            /\ replies'[1][1] = "can_recv"
            /\ LET ok == replies'[1][2]
                   raw == replies'[1][3]
                   valid == pubs'[1][2]
                   frames == pubs'[1][3]
               IN  /\ valid = ok
                   /\ comms_healthy' = ok
                   /\ ok => /\ Len(frames) = Len(raw)
                             /\ \A i \in 1..Len(raw) :
                                   /\ frames[i].address = raw[i][1]
                                   /\ frames[i].dat = raw[i][2]
                                   /\ frames[i].src = raw[i][3]
                   /\ ~ok => frames = << >> ]_vars
  /\ [][ (InTick(pc) /\ pc # "can_recv") => comms_healthy' = comms_healthy ]_vars

\* A receive that returned two frames, the higher address first: the message
\* published is valid and holds them in that order.
C20_Witness ==
  /\ last = "can_recv"
  /\ replies = << << "can_recv", TRUE, << << 513, "b", 2 >>, << 512, "a", 0 >> >> >> >>
  /\ comms_healthy
  /\ Len(pubs) = 1
  /\ pubs[1][2]
  /\ Len(pubs[1][3]) = 2
  /\ pubs[1][3][1].address = 513
  /\ pubs[1][3][2].address = 512

\* --- under SpecFn (functions applied on their own)
\* C21: the published fault list is the ascending sequence of the bit indices
\* in 0..26 that are set in the 32-bit bitset; bits 27..31 give no entry; when
\* no bit in 0..26 is set the faults field is omitted.
C21_FaultListIsSetBitsAscending ==
  (fn.op = "faults" /\ fn.done) =>
    LET expected == { b \in fn.bits : b >= 0 /\ b <= 26 }
    IN  IF expected = {} THEN fn.val = None
        ELSE /\ fn.val # None
             /\ LET l == fn.val[1]
                IN  /\ Len(l) = Cardinality(expected)
                    /\ { l[i] : i \in 1..Len(l) } = expected
                    /\ \A i \in 1..(Len(l) - 1) : l[i] < l[i + 1]

\* 0b101 with bit 27 set as well decodes to [0, 2].
C21_Witness ==
  /\ fn.op = "faults"
  /\ fn.done
  /\ fn.bits = {0, 2, 27}
  /\ fn.arg = [lo |-> 5, hi |-> 2048]
  /\ fn.val = Some(<< 0, 2 >>)

\* C22: for an integer filtered integrated-lines value L the IR power is 0 when
\* L <= 400, 100 when L >= 1000 and floor(100 * (L - 400) / 600) in between; it
\* lies within 0..100 and does not decrease when L grows.
C22_IrPowerPiecewiseLinear ==
  (fn.op = "ir_power" /\ fn.done) =>
    LET L == fn.arg
        p == fn.val
    IN  /\ L <= 400 => p = 0
        /\ L >= 1000 => p = 100
        /\ (L > 400 /\ L < 1000) =>
              600 * p <= 100 * (L - 400) /\ 100 * (L - 400) < 600 * (p + 1)
        /\ p \in 0..100
        /\ p <= ir_power(L + 1)
        /\ L = 400 => p = 0
        /\ L = 700 => p = 50
        /\ L = 300 => p = 0

\* 700 integrated lines have been mapped to 50 percent.
C22_Witness ==
  /\ fn.op = "ir_power"
  /\ fn.done
  /\ fn.arg = 700
  /\ fn.val = 50

\* --- under SpecIr (PeripheralStateProcessor.update, the IR power)
\* C23: after an update at which the most recent driver camera event was more
\* than 1 second old, or none had ever arrived, the IR power target is 0 and the
\* last IR power commanded to the device is 0.
C23_IrOffOnCameraTimeout ==
  (peripheral.frame > 0
   /\ (peripheral.cam_age = None \/ peripheral.cam_age[1] > IR_TIMEOUT_NS)) =>
    /\ peripheral.ir_pwr = 0
    /\ peripheral.ir_commanded = Some(0)

\* An update that found the camera input timed out while the IR LEDs were on:
\* it commanded 0 to the device.
C23_Witness ==
  /\ last = "peripheral_update"
  /\ peripheral.frame >= 2
  /\ peripheral.cam_age # None
  /\ peripheral.cam_age[1] > IR_TIMEOUT_NS
  /\ calls = << SetIrPower(0), HardwareSetIrPower(0) >>
  /\ peripheral.ir_pwr = 0
  /\ peripheral.ir_commanded = Some(0)

\* --- under SpecFan (PeripheralStateProcessor.update, the fan)
\* C24 (as claimed): with fan control not disabled, no 100 consecutive updates
\* pass without a set_fan_power, and every 100th update issues one.
C24_FanRefreshedEvery100Updates ==
  ~env.no_fan_control =>
    /\ peripheral.since_fan < RESEND_PERIOD
    /\ (peripheral.frame > 0 /\ peripheral.frame % RESEND_PERIOD = 0) =>
          peripheral.since_fan = 0

\* C25: under every interleaving of the reader's writes and the main thread's
\* get() calls, the pair get() returns was stored together by one reader
\* iteration, or is the initial (0, 0).
GetReturned == hwmon.mpc \in {"get_unlock", "fallback", "fan_rpm", "publish"}

C25_GetNeverTorn ==
  GetReturned => << hwmon.mv, hwmon.mc >> \in hwmon.written \cup { << 0, 0 >> }

\* A get() that ran while the reader was between two iterations' values.
C25_Witness ==
  /\ GetReturned
  /\ << hwmon.mv, hwmon.mc >> \in hwmon.written
  /\ hwmon.rpc \in {"lock", "store_voltage"}
  /\ << hwmon.rv, hwmon.rc >> # << hwmon.mv, hwmon.mc >>
  /\ hwmon.rv # hwmon.mv /\ hwmon.rc # hwmon.mc

\* C26: the reader holds the lock only while it stores the two values it has
\* already read, never across a sensor read, and a get() that has begun
\* returns whatever the sensor reads do.
InGet == hwmon.mpc \in {"get_lock", "get_voltage", "get_current", "get_unlock"}

C26_GetNeverWaitsForSensor ==
  /\ [](hwmon.lock = "reader" =>
          hwmon.rpc \in {"store_voltage", "store_current", "unlock"})
  /\ (hwmon.mpc = "get_lock") ~> ~InGet

\* The reader is stuck in a sensor read while the main thread is inside get().
C26_Witness ==
  /\ hwmon.rpc = "blocked"
  /\ hwmon.lock = "main"
  /\ hwmon.mpc = "get_unlock"

\* C27: a call on the device handle is only ever in progress on the main
\* thread, so never on two threads at once.
C27_DeviceCallsOnMainThreadOnly ==
  /\ \A t \in {"main", "reader"} : InCall(t) = "panda" => t = "main"
  /\ Cardinality({ t \in {"main", "reader"} : InCall(t) = "panda" }) <= 1

\* Both threads have a call in progress, on different handles.
C27_Witness ==
  /\ InCall("main") = "panda"
  /\ InCall("reader") # "none"

\* C29: a call of send_peripheral_state publishes exactly one peripheralState,
\* at its end; the message carries the pair get() returned unless both are
\* zero, then the device's voltage and current when health() succeeded; a
\* failed health() or get_fan_rpm() leaves the call on its way to the publish.
HealthAnswered ==
  \E i \in 1..Len(replies) : replies[i][1] = "health" /\ replies[i][2]

ExpectedVoltageCurrent ==
  IF hwmon.mv = 0 /\ hwmon.mc = 0
    THEN IF HealthAnswered THEN DeviceVoltageCurrent ELSE << 0, 0 >>
    ELSE << hwmon.mv, hwmon.mc >>

C29_OnePeripheralStatePerCall ==
  /\ hwmon.mpc # "idle" => pubs = << >>
  /\ (hwmon.mpc = "idle" /\ hwmon.gets > 0) =>
        /\ Len(pubs) = 1
        /\ pubs[1][1] = "peripheralState"
        /\ << pubs[1][3].voltage, pubs[1][3].current >> = ExpectedVoltageCurrent
  /\ (\E i \in 1..Len(replies) : replies[i][1] = "get_fan_rpm") =>
        hwmon.mpc \in {"publish", "idle"}

\* A published message with the device's values, after a failed fan query.
C29_Witness ==
  /\ hwmon.mpc = "idle"
  /\ Len(pubs) = 1
  /\ pubs[1][3].voltage = DeviceVoltageCurrent[1]
  /\ \E i \in 1..Len(replies) : replies[i][1] = "get_fan_rpm" /\ ~replies[i][2]

\* C28: at startup a connect() that returned None is followed by a 100 ms sleep
\* and another connect(), however many came before; the run loop is entered
\* only from a connect() that returned a handle; and once pandad_main_thread is
\* past the connect loop it never calls connect() again.
C28_ConnectRetriedAtStartupOnly ==
  /\ [][ (pc = "connect" /\ ~connected' /\ pc' # "crashed") =>
           /\ pc' = "connect"
           /\ calls' = << << "time.sleep", CONNECT_RETRY_MS >> >> ]_vars
  /\ [][ (pc = "connect" /\ pc' \notin {"connect", "crashed"}) =>
           pc' = "check" /\ connected' ]_vars
  /\ [][ pc # "connect" => pc' # "connect" ]_vars

\* A connect() has just failed and the next one is due after the sleep.
C28_Witness ==
  /\ pc = "connect"
  /\ last = "connect"
  /\ ~connected
  /\ calls = << << "time.sleep", CONNECT_RETRY_MS >> >>

C31_WrongPasswordReprompts ==
  (/\ wifi.op = "connect_to_network"
   /\ wifi.clicked # None
   /\ wifi.need_auth = wifi.clicked
   /\ wifi.clicked[1] \in DOMAIN wifi.networks
   /\ wifi.networks[wifi.clicked[1]] = "WPA"
   /\ wifi.clicked[1] \in wifi.saved) =>
     /\ wifi.wifi_state = wifi.before
     /\ wifi.dialog = wifi.clicked

\* C32: after _on_network_updated, whatever scans, connects and show events
\* came before, no ssid has two items, an item is marked missing exactly when
\* its ssid is not in the latest scan, and the network the wifi state names,
\* when it has an item, has the first one.
C32_ItemsFollowScan ==
  wifi.op = "on_network_updated" =>
    /\ \A i, j \in 1..Len(wifi.items) : wifi.items[i] = wifi.items[j] => i = j
    /\ \A i \in 1..Len(wifi.items) :
         wifi.items[i] \in wifi.missing <=> wifi.items[i] \notin DOMAIN wifi.networks
    /\ \A i \in 1..Len(wifi.items) :
         wifi.wifi_state.ssid = Some(wifi.items[i]) => i = 1

\* The scan lost the older item's network; the active network's item leads.
C32_Witness ==
  /\ wifi.op = "on_network_updated"
  /\ wifi.items = << "cafe", "home" >>
  /\ wifi.wifi_state = [ssid |-> Some("cafe"), status |-> "CONNECTED"]
  /\ wifi.order = << "cafe" >>
  /\ wifi.missing = {"home"}

\* C33: on a 10 Hz tick the step after send_panda_states, whatever its health
\* queries did, is the one send_heartbeat of the tick; it carries the engaged
\* flag that send_panda_states' step refreshed, and configure_safety_mode
\* follows it. No other step sends a heartbeat.
C33_OneHeartbeatPer10HzTick ==
  /\ [](\A i \in 1..Len(calls) :
          calls[i][1] = "send_heartbeat" =>
            last = "send_heartbeat" /\ calls = << << "send_heartbeat", engaged >> >>)
  /\ [][ pc = "send_panda_states" =>
           pc' = "send_heartbeat" /\ last' = "send_panda_states" ]_vars
  /\ [][ pc = "send_heartbeat" =>
           /\ frame % PANDA_STATE_PERIOD = 0
           /\ last = "send_panda_states"
           /\ engaged' = engaged
           /\ calls' = << << "send_heartbeat", engaged >> >>
           /\ pc' = "configure_safety_mode" ]_vars

\* The heartbeat of a tick on which the health query failed, engaged set.
C33_Witness ==
  /\ last = "send_heartbeat"
  /\ ignition_opt = None
  /\ engaged
  /\ calls = << << "send_heartbeat", TRUE >> >>
  /\ pc = "configure_safety_mode"

\* C34: an update issues set_ir_power exactly when the IR target it computed
\* differs from the value recorded at the last send or its update count is a
\* multiple of 100; the value sent is the target halved into 0..50 (to the
\* nearest integer); and after the update the recorded value is the target.
IrSent(cs) == { cs[i][2] : i \in { j \in 1..Len(cs) : cs[j][1] = "set_ir_power" } }

C34_IrSentOnChangeOrCadence ==
  [][ /\ IrSent(calls') # {} <=>
           (\/ peripheral'.ir_pwr # peripheral.prev_ir_pwr
            \/ peripheral'.frame % RESEND_PERIOD = 0)
      /\ \A v \in IrSent(calls') :
           /\ v \in 0..MAX_IR_PANDA_VAL
           /\ 2 * v - peripheral'.ir_pwr \in {-1, 0, 1}
           /\ IrSent(calls') = {v}
      /\ peripheral'.prev_ir_pwr = peripheral'.ir_pwr
      /\ peripheral'.frame = peripheral.frame + 1 ]_vars

\* The 100th update resends a target that has not changed.
C34_Witness ==
  /\ peripheral.frame = RESEND_PERIOD
  /\ peripheral.ir_pwr = 50
  /\ peripheral.since_fan = RESEND_PERIOD
  /\ calls = << SetIrPower(25), HardwareSetIrPower(50) >>

\* C35: a send_panda_states whose queries succeeded issues set_power_save
\* exactly when the power-save state health() reported differs from NOT
\* ignition_local, once, with NOT ignition_local as argument; with STARTED set
\* ignition_local is true, so power save is never turned on and is turned off
\* whenever the device reports it on.
PowerSaveSent == { calls[i][2] : i \in { j \in 1..Len(calls) : calls[j][1] = "set_power_save" } }

C35_PowerSaveFollowsIgnition ==
  (last = "send_panda_states" /\ ignition_opt # None) =>
    LET h == replies[1][3]
        ignition_local == ignition_opt[1]
        desired == IF ignition_local THEN 0 ELSE 1
    IN  /\ ignition_local <=>
             (env.spoofing_started \/ h.ignition_line # 0 \/ h.ignition_can # 0)
        /\ PowerSaveSent # {} <=> (IF h.power_save_enabled # 0 THEN 1 ELSE 0) # desired
        /\ PowerSaveSent \subseteq {desired}
        /\ Cardinality({ j \in 1..Len(calls) : calls[j][1] = "set_power_save" }) <= 1
        /\ dev.power_save_enabled = desired
        /\ env.spoofing_started =>
             /\ ignition_local
             /\ 1 \notin PowerSaveSent
             /\ h.power_save_enabled # 0 => PowerSaveSent = {0}

\* STARTED set, both ignition inputs off, the device in power save: turned off.
C35_Witness ==
  /\ last = "send_panda_states"
  /\ env.spoofing_started
  /\ ignition_opt = Some(TRUE)
  /\ replies[1][3].ignition_line = 0
  /\ replies[1][3].ignition_can = 0
  /\ replies[1][3].power_save_enabled # 0
  /\ PowerSaveSent = {0}

\* C36: when a voltage or current read raises, the reader goes to the sleep of
\* that iteration with both stored fields as they were, and from the sleep to
\* the loop test of the next iteration; it does not stop.
C36_ReadExceptionSkipsIteration ==
  /\ [][ (/\ hwmon.rpc \in {"get_voltage", "get_current"}
          /\ hwmon'.rpc # hwmon.rpc
          /\ hwmon'.rpc \notin {"get_current", "lock", "blocked"}) =>
            /\ hwmon'.rpc = "sleep"
            /\ hwmon'.voltage = hwmon.voltage
            /\ hwmon'.current = hwmon.current
            /\ hwmon'.written = hwmon.written ]_vars
  /\ [][ (hwmon.rpc = "sleep" /\ hwmon'.rpc # "sleep") => hwmon'.rpc = "loop" ]_vars

\* The second iteration read a new voltage, its current read raised, and the
\* first iteration's pair is still the one stored.
C36_Witness ==
  /\ hwmon.rpc = "sleep"
  /\ hwmon.writes = 2
  /\ hwmon.written = { << hwmon.voltage, hwmon.current >> }
  /\ hwmon.rv # hwmon.voltage

\* C37: at the end of a 10 Hz tick whose health queries succeeded with onroad
\* and ignition_local true, a configured PandaSafety means the device is in the
\* safety model and parameter of the CarParams that were applied in this
\* onroad session.
AppliedSafetyConfig ==
  IF \E m \in session.models : VehicleSpecific(m)
    THEN CarParamsToyota.safetyConfigs[1]
    ELSE CarParamsMock.safetyConfigs[1]

C37_ConfiguredMeansVehicleMode ==
  (/\ last = "configure_safety_mode"
   /\ pc # "crashed"
   /\ ignition_opt = Some(TRUE)
   /\ is_onroad
   /\ panda_safety.safety_configured) =>
     /\ dev.safety_mode = AppliedSafetyConfig.safetyModel
     /\ dev.safety_param = AppliedSafetyConfig.safetyParam

\* C38: at the end of a 10 Hz tick whose health queries succeeded with
\* ignition_local false, the device's safety mode is NO_OUTPUT.
C38_IgnitionOffEndsTickInNoOutput ==
  (/\ last = "configure_safety_mode"
   /\ pc # "crashed"
   /\ ignition_opt = Some(FALSE)) =>
     dev.safety_mode = NO_OUTPUT

\* C39: a send_panda_states in which health() or a can_health(i) failed issues
\* no device call and publishes nothing: the device's safety mode, parameter and
\* power-save state after the call are those before it.
C39_FailedQueryTouchesNothing ==
  [][ (pc = "send_panda_states" /\ ignition_opt' = None) =>
        /\ last' = "send_panda_states"
        /\ calls' = << >>
        /\ pubs' = << >>
        /\ dev' = dev ]_vars

\* health() answered, a can_health failed, the device in a vehicle-specific
\* mode with ignition off and power save off: left as it is.
C39_Witness ==
  /\ last = "send_panda_states"
  /\ ignition_opt = None
  /\ Len(replies) > 1
  /\ replies[1][2]
  /\ replies[1][3].ignition_line = 0 /\ replies[1][3].ignition_can = 0
  /\ ~is_onroad
  /\ VehicleSpecific(dev.safety_mode)
  /\ dev.power_save_enabled = 0
  /\ calls = << >>

\* C40: whenever the run loop has been left, do_exit is true (so that the
\* HwmonReader's loop test then ends its thread).
C40_LoopExitSetsStopFlag ==
  (\/ pc \in {"exit", "close", "done"}
   \/ (pc = "crashed" /\ last = "configure_safety_mode")) => do_exit

====
